---- MODULE Spec2Model ----
(***************************************************************************)
(* Scan scheduler with file-stability gating (yleoer/music).               *)
(*                                                                         *)
(* Spec      the TaskScheduler: TriggerScan, the time.AfterFunc callbacks   *)
(*           and performScan, for several directories.  The verdict of     *)
(*           waitForFilesStability and the results of the collaborators    *)
(*           (ledger, album scanner, processor) are inputs.                *)
(* SpecFair  the same with fair callbacks and a fair scan lock.             *)
(* SpecStab  waitForFilesStability, run after run on one directory whose    *)
(*           files are created, written and removed while it polls, for    *)
(*           every configuration of the three durations.                   *)
(* SpecConv  the scheduler scanning one directory with the detector while   *)
(*           a download into the directory goes on and then ends, with     *)
(*           fair timers, goroutines, lock and clock.                      *)
(* SpecSweep InitialScan over the download root, for every tree below it.   *)
(* SpecWatch the watcher loop of main, event by event, while the tree      *)
(*           changes.                                                      *)
(* SpecCue   parseCueFile and processCueFile on one cue file, line by      *)
(*           line, for cue sheets of up to MaxTracks tracks.               *)
(* SpecAlbum the walk of ScanAlbumDirectory over an album directory of up   *)
(*           to MaxEntries entries.                                        *)
(* SpecAlbumMain  the same walk as scanner.go has it.                       *)
(* SpecDesc  the descriptor of ScanAlbumDirectory: Info.txt and the name    *)
(*           of the directory give Artist, Title and Year.                 *)
(* SpecLock  the scheduler statement by statement where it takes the lock   *)
(*           of the pending map, with one goroutine calling TriggerScan.   *)
(* SpecMain  waitForFilesStability as main.go has it.                       *)
(* SpecTerm  waitForFilesStability with a fair goroutine and a fair clock.  *)
(* SpecLines parseCueFile on cue files of up to MaxLines lines in any       *)
(*           order.                                                        *)
(* SpecTime  parseCueFile and processCueFile on cue files of one track,     *)
(*           for the INDEX 01 timestamps of two digits a field.            *)
(*                                                                         *)
(* Time is discrete.  The code keeps instants (time.Now()) and only ever    *)
(* uses their distance to a later instant, compared with a duration; the   *)
(* model keeps those distances, which grow with every tick and stop        *)
(* growing at the duration they are compared with.  Computation takes no   *)
(* time: the clock advances only while the detector sleeps or is not       *)
(* running.                                                                *)
(***************************************************************************)
EXTENDS Naturals, Integers, Sequences, FiniteSets, TLC

\* ------------------------------------------------------------------ bounds
\* timers alive at the same time (armed, or with a running callback)
MaxTimers == 3

\* the album directories under the download root
Dirs == {1, 2}

\* relevant files of a directory, in the order os.ReadDir lists them
Files == {1, 2}
\* the largest StabilityCheckInterval, in ticks
MaxInterval == 2
\* the largest StabilityQuietDuration, in ticks
MaxQuiet == 2
\* the largest StabilityMaxWait, in ticks
MaxWait == 4
\* the tracks of one cue sheet
MaxTracks == 3

\* the (size, modification time) pairs a file can show
Pairs == {1, 2}

\* no instant recorded (the zero time.Time, or no map entry)
Never == -1

VARIABLES
    timers,        \* the live timers of time.AfterFunc, each with its callback
    pendingScans,  \* ts.pendingScans: directory -> timer (0: no entry)
    scanMutex,     \* ts.scanMutex: the timer whose callback holds it (0: free)
    ledger,        \* processed_albums: the directories marked processed
    scan,          \* the scan that last took scanMutex: its timer and directory,
                   \* the ledger it started from, its calls and their results
    effects,       \* downstream side effects of the running callbacks, in order
    cfg,           \* StabilityCheckInterval, StabilityQuietDuration, StabilityMaxWait
    files,         \* the watched directory: file -> its pair (0: no such file)
    det,           \* the run of waitForFilesStability: its locals and its result
    changed,       \* per file: ticks since its pair last changed (Never: it has
                   \* not, since the file appeared)
    undone,        \* per file: its last change gave it back the pair that the
                   \* latest poll of the run had read for it
    settled,       \* the files no longer change and the directory stays listable
    tree,          \* the download root: path below it -> "none", "file" or "dir"
    sweep,         \* the run of InitialScan: its position and what it was told
    calls,         \* the TriggerScan calls of InitialScan and of the watcher loop
    downloadDir,   \* cfg.DownloadDir: "below" a parent of its own, or "top", a
                   \* path that is its own filepath.Dir ("." or "/")
    watch,         \* the watcher loop: the events handled, the last one
    sheet,         \* the text of the cue file: its lines
    cue,           \* the run of parseCueFile: its position, the CueSheet so far
    disc,          \* what processCueFile returned: a Disc or an error
    listing,       \* the album directory as filepath.WalkDir visits it
    walk,          \* the run of ScanAlbumDirectory: its position, discNumber
    albumObj,      \* the Album being assembled: its Discs
    source,        \* what the album is described by: Info.txt, if it can be
                   \* read, and the base name of the directory
    meta,          \* the Artist, Title and Year of the Album being assembled
    pendingScansMutex,  \* ts.pendingScansMutex: the goroutine that holds it
                   \* (0: free), a timer's callback or the caller of TriggerScan
    caller,        \* the goroutine that calls TriggerScan from outside (event
                   \* consumer, startup sweep): its position and its directory
    tsLocal        \* the local variable timer of the running TriggerScan calls

schedVars == <<timers, pendingScans, scanMutex, ledger, scan, effects>>

detVars == <<cfg, files, det, changed, undone, settled>>

watchVars == <<tree, sweep, calls, downloadDir, watch>>

cueVars == <<sheet, cue, disc>>

albumVars == <<listing, walk, albumObj>>

descVars == <<source, meta>>

asmVars == <<cueVars, albumVars, descVars>>

lockVars == <<pendingScansMutex, caller, tsLocal>>

frontVars == <<watchVars, asmVars, lockVars>>

vars == <<schedVars, detVars, frontVars>>

\* ------------------------------------------------------------- scheduler
\* positions of a timer and of its callback goroutine
\*   free     no timer: never created, stopped before it fired, or finished
\*   armed    started by AfterFunc, not fired, not stopped
\*   lock     callback running, at scanMutex.Lock()
\*   stab .. mark   inside performScan, holding scanMutex (wait: inside
\*            waitForFilesStability)
\*   delete   performScan returned, at the callback's delete(pendingScans, dir)
InScan == {"stab", "wait", "resched", "ledger", "scan", "fetch", "process", "mark"}

TimerIds == 1..MaxTimers

NoTimer == [dir |-> 0, pc |-> "free"]

NoScan == [id |-> 0, dir |-> 0, before |-> {}, log |-> <<>>, failed |-> FALSE]

\* the side effects left when the callback t is through with them
Forget(eff, t) == SelectSeq(eff, LAMBDA e : e # t)

\* timer.Stop(): prevents the callback only if the timer has not fired yet
\* Stop ends the callback of a timer that has fired as well
StopTimerRunning(ts, id) == [ts EXCEPT ![id] = NoTimer]

StopTimer(ts, id) ==
    IF ts[id].pc = "armed" THEN [ts EXCEPT ![id] = NoTimer] ELSE ts

\* the identity of the next timer object
NewTimer(ts) ==
    CHOOSE i \in TimerIds : ts[i].pc = "free" /\ \A j \in 1..(i - 1) : ts[j].pc # "free"

\* time.AfterFunc(interval, func() {...}): a new armed timer for directory d
AfterFunc(ts, d) ==
    [ts EXCEPT ![NewTimer(ts)] = [dir |-> d, pc |-> "armed"]]

\* TriggerScan, under pendingScansMutex: stop the timer of the map's entry
TriggerScanStop(ts, pend, d) ==
    IF pend[d] # 0 THEN StopTimer(ts, pend[d]) ELSE ts

\* TriggerScan, under pendingScansMutex: the timers after the call
TriggerScanTimers(ts, pend, d) == AfterFunc(TriggerScanStop(ts, pend, d), d)

\* TriggerScan, under pendingScansMutex: the map after the call
TriggerScanPending(ts, pend, d) ==
    [pend EXCEPT ![d] = NewTimer(TriggerScanStop(ts, pend, d))]

FreeTimers == Cardinality({t \in TimerIds : timers[t].pc = "free"})

\* a timer can still be created within the bound by a call from outside: one
\* place is kept for the scan that reschedules itself
CanArm == FreeTimers > 1

\* a timer can still be created within the bound by a scan
CanRearm == FreeTimers > 0

\* the watcher calls TriggerScan(d), while the files of the directories
\* still change
TriggerScan(d) ==
    /\ ~settled
    /\ CanArm
    /\ timers' = TriggerScanTimers(timers, pendingScans, d)
    /\ pendingScans' = TriggerScanPending(timers, pendingScans, d)
    /\ UNCHANGED <<scanMutex, ledger, scan, effects>>
    /\ UNCHANGED <<detVars, frontVars>>

\* the delay expires: the runtime starts the callback in its own goroutine
TimerFire(t) ==
    /\ timers[t].pc = "armed"
    /\ timers' = [timers EXCEPT ![t].pc = "lock"]
    /\ UNCHANGED <<pendingScans, scanMutex, ledger, scan, effects>>
    /\ UNCHANGED <<detVars, frontVars>>

\* a mutex that excludes nobody
ScanMutexIgnored == TRUE

\* ts.scanMutex.Lock() returns only when nobody holds the mutex
ScanMutexFree == scanMutex = 0

\* performScan: ts.scanMutex.Lock()
LockScan(t) ==
    /\ timers[t].pc = "lock"
    /\ ScanMutexFree
    /\ scanMutex' = t
    /\ timers' = [timers EXCEPT ![t].pc = "stab"]
    /\ scan' = [id |-> t, dir |-> timers[t].dir, before |-> ledger,
                 log |-> <<>>, failed |-> FALSE]
    /\ UNCHANGED <<pendingScans, ledger, effects>>
    /\ UNCHANGED <<detVars, frontVars>>

\* one more call or result in the record of the scan in progress
Log(e) == [scan EXCEPT !.log = Append(@, e)]

\* performScan returns: the deferred ts.scanMutex.Unlock()
Return(ts, t) == [ts EXCEPT ![t].pc = "delete"]

\* a scan that goes on to the ledger whatever the verdict
AfterVerdictAlways(stable) == "ledger"

\* performScan: if !ts.waitForFilesStability(dir) { TriggerScan; return }
AfterVerdict(stable) == IF stable THEN "ledger" ELSE "resched"

\* performScan: the verdict of waitForFilesStability(dir)
TakeVerdict(t, stable) ==
    /\ stable \/ CanRearm
    /\ timers' = [timers EXCEPT ![t].pc = AfterVerdict(stable)]
    /\ scan' = Log(IF stable THEN "stable" ELSE "unstable")
    /\ UNCHANGED <<pendingScans, scanMutex, ledger, effects>>

\* performScan with waitForFilesStability as an input: any verdict
StabilityVerdict(t) ==
    /\ timers[t].pc = "stab"
    /\ \E stable \in BOOLEAN : TakeVerdict(t, stable)
    /\ UNCHANGED <<detVars, frontVars>>

\* an unstable scan that returns without releasing the scan lock
RescheduleHolds(t) ==
    /\ timers[t].pc = "resched"
    /\ LET d == timers[t].dir
       IN /\ timers' = Return(TriggerScanTimers(timers, pendingScans, d), t)
          /\ pendingScans' = TriggerScanPending(timers, pendingScans, d)
          /\ scan' = Log("trigger")
    /\ effects' = Forget(effects, t)
    /\ UNCHANGED <<scanMutex, ledger>>
    /\ UNCHANGED <<detVars, frontVars>>

\* performScan, unstable: ts.TriggerScan(dir); return
Reschedule(t) ==
    /\ timers[t].pc = "resched"
    /\ LET d == timers[t].dir
       IN /\ timers' = Return(TriggerScanTimers(timers, pendingScans, d), t)
          /\ pendingScans' = TriggerScanPending(timers, pendingScans, d)
          /\ scan' = Log("trigger")
    /\ scanMutex' = 0
    /\ effects' = Forget(effects, t)
    /\ UNCHANGED ledger
    /\ UNCHANGED <<detVars, frontVars>>

\* a lookup that never finds the directory
IsAlbumProcessedNever(d, fails) == FALSE

\* IsAlbumProcessed: (count > 0, nil), or (false, err) when the query fails
IsAlbumProcessed(d, fails) == IF fails THEN FALSE ELSE d \in ledger

\* performScan: the ledger lookup; its error is logged and otherwise ignored
LedgerCheck(t) ==
    /\ timers[t].pc = "ledger"
    /\ \E fails \in BOOLEAN :
          /\ scan' = Log(IF fails THEN "ledger_err"
                         ELSE IF timers[t].dir \in ledger THEN "ledger_yes"
                         ELSE "ledger_no")
          /\ IF IsAlbumProcessed(timers[t].dir, fails)
             THEN /\ timers' = Return(timers, t)
                  /\ scanMutex' = 0
                  /\ effects' = Forget(effects, t)
             ELSE /\ timers' = [timers EXCEPT ![t].pc = "scan"]
                  /\ UNCHANGED <<scanMutex, effects>>
    /\ UNCHANGED <<pendingScans, ledger>>
    /\ UNCHANGED <<detVars, frontVars>>

\* what ScanAlbumDirectory can return: an error, or an album with n discs
ScanResults == {"scan_err", "discs0", "discs1"}

\* a scan that goes on after the assembler's error
AfterAssembleErr(r) == IF r = "discs0" THEN "delete" ELSE "fetch"

\* a scan that also processes an album without discs
AfterAssembleEmpty(r) == IF r = "scan_err" THEN "delete" ELSE "fetch"

\* performScan: return on err; process only if len(album.Discs) > 0
AfterAssemble(r) == IF r = "discs1" THEN "fetch" ELSE "delete"

\* performScan: ScanAlbumDirectory(dir) and what follows its result
Assemble(t) ==
    /\ timers[t].pc = "scan"
    /\ \E r \in ScanResults :
          /\ scan' = Log(r)
          /\ IF AfterAssemble(r) = "fetch"
             THEN /\ timers' = [timers EXCEPT ![t].pc = "fetch"]
                  /\ UNCHANGED <<scanMutex, effects>>
             ELSE /\ timers' = Return(timers, t)
                  /\ scanMutex' = 0
                  /\ effects' = Forget(effects, t)
    /\ UNCHANGED <<pendingScans, ledger>>
    /\ UNCHANGED <<detVars, frontVars>>

\* performScan: metaFetcher.FetchMetadataAndUpdateTrack for every track
Fetch(t) ==
    /\ timers[t].pc = "fetch"
    /\ timers' = [timers EXCEPT ![t].pc = "process"]
    /\ scan' = Log("fetch")
    /\ effects' = Append(effects, t)
    /\ UNCHANGED <<pendingScans, scanMutex, ledger>>
    /\ UNCHANGED <<detVars, frontVars>>

\* a scan that marks the directory whatever ProcessAlbum returned
AfterProcessAlways(ok) == "mark"

\* performScan: if err != nil { log } else { AddProcessedAlbum(dir) }
AfterProcess(ok) == IF ok THEN "mark" ELSE "delete"

\* the results of cmd.Run() for the tracks of an album, in order
Runs == [1..MaxTracks -> BOOLEAN]

\* ProcessAlbum: an error when MkdirAll fails; a track whose ffmpeg command
\* fails is logged and skipped (continue), and the album returns nil
ProcessAlbum(mkdirOk, runs) == mkdirOk

\* ProcessAlbum: some cmd.Run() returned an error
TrackFailed(mkdirOk, runs) == mkdirOk /\ \E i \in DOMAIN runs : ~runs[i]

\* performScan: albumProcessor.ProcessAlbum(album, MusicLibDir)
Process(t) ==
    /\ timers[t].pc = "process"
    /\ \E mkdirOk \in BOOLEAN, runs \in Runs :
         LET ok == ProcessAlbum(mkdirOk, runs)
         IN
          /\ scan' = [Log(IF ok THEN "process_ok" ELSE "process_err")
                         EXCEPT !.failed = TrackFailed(mkdirOk, runs)]
          /\ IF AfterProcess(ok) = "mark"
             THEN /\ timers' = [timers EXCEPT ![t].pc = "mark"]
                  /\ effects' = Append(effects, t)
                  /\ UNCHANGED scanMutex
             ELSE /\ timers' = Return(timers, t)
                  /\ effects' = Forget(Append(effects, t), t)
                  /\ scanMutex' = 0
    /\ UNCHANGED <<pendingScans, ledger>>
    /\ UNCHANGED <<detVars, frontVars>>

\* an insert that replaces the rows of the table
AddProcessedAlbumReplaces(d, fails) == IF fails THEN ledger ELSE {d}

\* AddProcessedAlbum: INSERT OR IGNORE, or an error that leaves the table alone
AddProcessedAlbum(d, fails) == IF fails THEN ledger ELSE ledger \cup {d}

\* performScan: ts.dbStore.AddProcessedAlbum(dir), its error dropped
Mark(t) ==
    /\ timers[t].pc = "mark"
    /\ effects' = Forget(Append(effects, t), t)
    /\ \E fails \in BOOLEAN : ledger' = AddProcessedAlbum(timers[t].dir, fails)
    /\ timers' = Return(timers, t)
    /\ scan' = Log("mark")
    /\ scanMutex' = 0
    /\ UNCHANGED <<pendingScans>>
    /\ UNCHANGED <<detVars, frontVars>>

\* the callback after performScan: delete(ts.pendingScans, dirPath)
DeletePending(t) ==
    /\ timers[t].pc = "delete"
    /\ pendingScans' = [pendingScans EXCEPT ![timers[t].dir] = 0]
    /\ timers' = [timers EXCEPT ![t] = NoTimer]
    /\ scan' = IF scan.id = t THEN NoScan ELSE scan
    /\ UNCHANGED <<scanMutex, ledger, effects>>
    /\ UNCHANGED <<detVars, frontVars>>


\* ------------------------------------------------- waitForFilesStability
\* the configurations: LoadConfig accepts any duration for the quiet time and
\* the maximum wait; an interval of zero would make the loop spin
Configs ==
    [interval : 1..MaxInterval, quiet : 0..MaxQuiet, maxWait : 0..MaxWait]

NoFiles == [f \in Files |-> 0]

\* no run in progress (polls, listed and seen record what the run has done:
\* the code keeps no such values)
Idle == [pc |-> "idle", elapsed |-> 0, sleep |-> 0, prev |-> NoFiles,
         quiet |-> [f \in Files |-> Never], polls |-> 0,
         listed |-> "none", result |-> FALSE,
         seen |-> [f \in Files |-> Never]]

\* what os.ReadDir and entry.Info() give a poll
\*   ok       every entry was read
\*   listErr  os.ReadDir failed
\*   statErr  entry.Info() failed (not with IsNotExist) after `cut` relevant
\*            files were read, and the loop over the entries broke off
Listings ==
    [kind : {"ok", "listErr"}, cut : {Cardinality(Files)}]
        \cup [kind : {"statErr"}, cut : 0..Cardinality(Files)]

\* the listings a poll can get: no error once the directory has settled
Listable == IF settled THEN {l \in Listings : l.kind = "ok"} ELSE Listings

\* currentFileStates: the pairs of the relevant files the poll has read
CurrentFileStates(l) == [f \in Files |-> IF f <= l.cut THEN files[f] ELSE 0]

\* fileChanged: the file is new to the run, or its pair differs from the one
\* of the previous poll
FileChanged(cur, f) == det.prev[f] = 0 \/ det.prev[f] # cur[f]

\* fileQuietTimes, were every poll to reset the quiet-since instant
FileQuietTimesReset(cur) ==
    [f \in Files |-> IF cur[f] = 0 THEN det.quiet[f] ELSE 0]

\* fileQuietTimes, were a change not to reset the quiet-since instant
FileQuietTimesKept(cur) ==
    [f \in Files |->
        IF cur[f] = 0 \/ det.quiet[f] # Never THEN det.quiet[f] ELSE 0]

\* fileQuietTimes after the loop over the entries: the distance of each
\* file's quiet-since instant to this poll
FileQuietTimes(cur) ==
    [f \in Files |->
        IF cur[f] = 0 THEN det.quiet[f]
        ELSE IF FileChanged(cur, f) \/ det.quiet[f] = Never THEN 0
        ELSE det.quiet[f]]

\* the distance of this poll to the poll in which the run first read each file
FirstSeen(cur) ==
    [f \in Files |-> IF cur[f] # 0 /\ det.seen[f] = Never THEN 0 ELSE det.seen[f]]

\* no quiet-since instant is too recent
TooRecentNever(age) == FALSE

\* currentCheckTime.Sub(lastChangeTime) < StabilityQuietDuration
TooRecent(age) == age < cfg.quiet

\* allRelevantFilesQuiet after the loop over the entries
AllRelevantFilesQuiet(l, cur) ==
    /\ l.kind # "statErr"
    /\ \A f \in Files :
          cur[f] # 0 =>
             /\ ~FileChanged(cur, f)
             /\ det.quiet[f] # Never
             /\ ~TooRecent(det.quiet[f])

\* hasRelevantFiles after the loop over the entries
HasRelevantFiles(l, cur) ==
    l.kind = "statErr" \/ \E f \in Files : cur[f] # 0

\* allCurrentlyQuiet, were the second loop not to skip the removed files
AllCurrentlyQuietTracked(cur, quiet) ==
    \A f \in Files : quiet[f] # Never => ~TooRecent(quiet[f])

\* allCurrentlyQuiet: the second loop, over fileQuietTimes
AllCurrentlyQuiet(cur, quiet) ==
    \A f \in Files :
        quiet[f] # Never /\ cur[f] # 0 => ~TooRecent(quiet[f])

\* the loop test, were the maximum wait never reached
WithinMaxWaitAlways == TRUE

\* the loop test: time.Since(startOverallWait) < StabilityMaxWait
WithinMaxWait == det.elapsed < cfg.maxWait

\* time.Sleep(StabilityCheckInterval), then the loop test again
Sleep(d) == [d EXCEPT !.pc = "sleep", !.sleep = cfg.interval]

\* return from waitForFilesStability
Verdict(d, stable) == [d EXCEPT !.pc = "done", !.result = stable]

\* waitForFilesStability is entered: empty maps, startOverallWait = now
WaitStart ==
    /\ det.pc = "idle"
    /\ det' = [Idle EXCEPT !.pc = "poll"]
    /\ UNCHANGED <<cfg, files, changed, undone, settled, schedVars, frontVars>>

\* one pass of the for loop: the loop test, and a poll if it holds
Poll ==
    /\ det.pc = "poll"
    /\ IF ~WithinMaxWait
       THEN det' = Verdict(det, FALSE)
       ELSE \E l \in Listable :
               LET cur == CurrentFileStates(l)
                   quiet == FileQuietTimes(cur)
                   polled == [det EXCEPT !.polls = IF @ < 2 THEN @ + 1 ELSE @,
                                         !.listed = l.kind]
                   read == [polled EXCEPT !.prev = cur, !.quiet = quiet,
                                          !.seen = FirstSeen(cur)]
               IN IF l.kind = "listErr"
                  THEN det' = Sleep(polled)
                  ELSE IF ~HasRelevantFiles(l, cur)
                  THEN det' = Verdict(read, TRUE)
                  ELSE IF AllRelevantFilesQuiet(l, cur) /\ AllCurrentlyQuiet(cur, quiet)
                  THEN det' = Verdict(read, TRUE)
                  ELSE det' = Sleep(read)
    /\ UNCHANGED <<cfg, files, changed, undone, settled, schedVars, frontVars>>

\* time.Sleep returns
Wake ==
    /\ det.pc = "sleep"
    /\ det.sleep = 0
    /\ det' = [det EXCEPT !.pc = "poll"]
    /\ UNCHANGED <<cfg, files, changed, undone, settled, schedVars, frontVars>>

\* the caller has the verdict
WaitEnd ==
    /\ det.pc = "done"
    /\ det' = Idle
    /\ UNCHANGED <<cfg, files, changed, undone, settled, schedVars, frontVars>>

\* a distance one tick later; it stops growing at `top`
Older(age, top) == IF age = Never \/ age >= top THEN age ELSE age + 1

\* one tick of the clock, while the detector sleeps or does not run
Tick ==
    /\ \/ det.pc = "idle"
       \/ det.pc = "sleep" /\ det.sleep > 0
    /\ det' = [det EXCEPT
                  !.elapsed = IF det.pc = "sleep" THEN Older(@, cfg.maxWait) ELSE @,
                  !.sleep = IF @ > 0 THEN @ - 1 ELSE 0,
                  !.quiet = [f \in Files |-> Older(@[f], cfg.quiet)],
                  !.seen = [f \in Files |-> Older(@[f], cfg.quiet)]]
    /\ changed' = [f \in Files |-> Older(changed[f], cfg.quiet)]
    /\ UNCHANGED <<cfg, files, undone, settled, schedVars, frontVars>>

\* another process creates file f
FileCreate(f) ==
    /\ det.pc # "done" /\ ~settled
    /\ files[f] = 0
    /\ \E p \in Pairs : files' = [files EXCEPT ![f] = p]
    /\ UNCHANGED <<cfg, det, changed, undone, settled, schedVars, frontVars>>

\* another process writes file f, or sets its modification time
FileWrite(f) ==
    /\ det.pc # "done" /\ ~settled
    /\ files[f] # 0
    /\ \E p \in Pairs \ {files[f]} : files' = [files EXCEPT ![f] = p]
    /\ changed' = [changed EXCEPT ![f] = 0]
    /\ undone' = [undone EXCEPT ![f] = (files'[f] = det.prev[f])]
    /\ UNCHANGED <<cfg, det, settled, schedVars, frontVars>>

\* another process removes file f
FileRemove(f) ==
    /\ det.pc # "done" /\ ~settled
    /\ files[f] # 0
    /\ files' = [files EXCEPT ![f] = 0]
    /\ changed' = [changed EXCEPT ![f] = Never]
    /\ undone' = [undone EXCEPT ![f] = FALSE]
    /\ UNCHANGED <<cfg, det, settled, schedVars, frontVars>>

\* ------------------------------- performScan with waitForFilesStability
\* performScan calls waitForFilesStability(dir)
StabilityCall(t) ==
    /\ timers[t].pc = "stab"
    /\ det.pc = "idle"
    /\ timers' = [timers EXCEPT ![t].pc = "wait"]
    /\ det' = [Idle EXCEPT !.pc = "poll"]
    /\ UNCHANGED <<pendingScans, scanMutex, ledger, scan, effects>>
    /\ UNCHANGED <<cfg, files, changed, undone, settled, frontVars>>

\* waitForFilesStability returns its verdict to performScan
StabilityReturn(t) ==
    /\ timers[t].pc = "wait"
    /\ det.pc = "done"
    /\ TakeVerdict(t, det.result)
    /\ det' = Idle
    /\ UNCHANGED <<cfg, files, changed, undone, settled, frontVars>>

\* the file a download into the directory writes
Downloaded == CHOOSE f \in Files : \A g \in Files : f <= g

\* the download into the directory goes on: its file is created, written or
\* removed (changed and undone do not follow these changes)
Download ==
    /\ det.pc # "done" /\ ~settled
    /\ \E p \in ({0} \cup Pairs) \ {files[Downloaded]} :
          files' = [files EXCEPT ![Downloaded] = p]
    /\ UNCHANGED <<cfg, det, changed, undone, settled, schedVars, frontVars>>

\* the download is over: from now on no file of the directory changes, no
\* event reaches the watcher and the directory can be listed
Settle ==
    /\ ~settled
    /\ det.pc # "done"
    /\ settled' = TRUE
    /\ UNCHANGED <<cfg, files, det, changed, undone, schedVars, frontVars>>

\* ------------------------------------------------------------ InitialScan
\* a path below the download root: the names from the root down
Root == <<>>

\* filepath.Dir, below the root
Dir(q) == SubSeq(q, 1, Len(q) - 1)

\* the name of the entry itself
Base(q) == q[Len(q)]

\* the album directories, as paths
Children == {<<d>> : d \in Dirs}

\* the paths of the model: the entries of the root, and one entry inside each
Paths == Children \cup {<<d, e>> : d \in Dirs, e \in {CHOOSE x \in Dirs : TRUE}}

\* the trees: an entry has a parent directory
Trees ==
    {t \in [Paths -> {"none", "file", "dir"}] :
        \A q \in Paths : t[q] # "none" /\ Dir(q) # Root => t[Dir(q)] = "dir"}

\* the entries of every depth, as a recursive walk would give them
ReadDirDeep(t, p) == {q \in Paths : t[q] # "none"}

\* os.ReadDir(p): the entries of directory p itself
ReadDir(t, p) == {q \in Paths : t[q] # "none" /\ Dir(q) = p}

\* os.ReadDir returns the entries sorted by filename
RECURSIVE InOrder(_)
InOrder(S) ==
    IF S = {} THEN <<>>
    ELSE LET q == CHOOSE x \in S : \A y \in S : Base(x) <= Base(y)
         IN <<q>> \o InOrder(S \ {q})

\* entry.IsDir()
IsDir(t, q) == t[q] = "dir"

\* InitialScan has not run
NoSweep == [pc |-> "start", todo |-> <<>>, listed |-> FALSE, reported |-> {}]

\* ts.TriggerScan(path), called with no scan going on: the scheduler keeps its
\* timers by album directory
Schedule(q) ==
    IF q \in Children
    THEN /\ timers' = TriggerScanTimers(timers, pendingScans, Base(q))
         /\ pendingScans' = TriggerScanPending(timers, pendingScans, Base(q))
    ELSE UNCHANGED <<timers, pendingScans>>

\* InitialScan: os.ReadDir(downloadRoot), which may fail
SweepList ==
    /\ sweep.pc = "start"
    /\ \E ok \in BOOLEAN :
          sweep' = IF ok
                   THEN [sweep EXCEPT !.pc = "loop", !.listed = TRUE,
                                      !.todo = InOrder(ReadDir(tree, Root))]
                   ELSE [sweep EXCEPT !.pc = "done"]
    /\ UNCHANGED <<tree, calls, downloadDir, watch, schedVars, detVars, lockVars, asmVars>>

\* InitialScan: one entry of the listing
SweepEntry ==
    /\ sweep.pc = "loop"
    /\ sweep.todo # <<>>
    /\ LET q == Head(sweep.todo)
           next == [sweep EXCEPT !.todo = Tail(@)]
       IN IF ~IsDir(tree, q)
          THEN /\ sweep' = next
               /\ UNCHANGED <<calls, timers, pendingScans>>
          ELSE \E fails \in BOOLEAN :
                  IF IsAlbumProcessed(Base(q), fails)
                  THEN /\ sweep' = [next EXCEPT !.reported = @ \cup {q}]
                       /\ UNCHANGED <<calls, timers, pendingScans>>
                  ELSE /\ sweep' = next
                       /\ calls' = Append(calls, q)
                       /\ Schedule(q)
    /\ UNCHANGED <<tree, downloadDir, watch, scanMutex, ledger, scan, effects, detVars, lockVars, asmVars>>

\* InitialScan returns
SweepEnd ==
    /\ sweep.pc = "loop"
    /\ sweep.todo = <<>>
    /\ sweep' = [sweep EXCEPT !.pc = "done"]
    /\ UNCHANGED <<tree, calls, downloadDir, watch, schedVars, detVars, lockVars, asmVars>>

\* ------------------------------------------------------- the watcher loop
\* events handled in one behaviour
MaxEvents == 2

\* a path that is not below the download root
Outside == <<0>>

\* filepath.Dir of any path of the model
FilepathDir(q) ==
    IF q # Root THEN Dir(q)
    ELSE IF downloadDir = "top" THEN Root ELSE Outside

\* util.IsDirectory: os.Stat(path) succeeds and finds a directory
IsDirectory(q) == q = Root \/ (q \in Paths /\ tree[q] = "dir")

\* fsnotify events: an operation and the path it is about
Events ==
    [op : {"Create", "Write", "Remove", "Rename", "Chmod"},
     name : Paths \cup {Root}]

\* no event handled yet
NoWatch == [n |-> 0, event |-> [op |-> "none", name |-> Root]]

\* the second part of the handler: the directory the event belongs to
AlbumPathCandidate(e) ==
    IF IsDirectory(e.name) THEN e.name ELSE FilepathDir(e.name)

\* the TriggerScan calls the handler makes for event e
WatcherCalls(e) ==
    IF e.op = "Create" /\ FilepathDir(e.name) = Root /\ IsDirectory(e.name)
    THEN <<e.name>>
    ELSE IF FilepathDir(AlbumPathCandidate(e)) = Root
    THEN <<AlbumPathCandidate(e)>>
    ELSE <<>>

\* the watcher loop handles one event
WatchEvent(e) ==
    /\ watch.n < MaxEvents
    /\ watch' = [n |-> watch.n + 1, event |-> e]
    /\ calls' = calls \o WatcherCalls(e)
    /\ IF WatcherCalls(e) = <<>>
       THEN UNCHANGED <<timers, pendingScans>>
       ELSE Schedule(WatcherCalls(e)[1])
    /\ UNCHANGED <<tree, sweep, downloadDir, scanMutex, ledger, scan, effects, detVars, lockVars, asmVars>>

\* another process creates, replaces or removes an entry of the tree
TreeChange ==
    /\ \E t \in Trees :
          /\ Cardinality({q \in Paths : t[q] # tree[q]}) = 1
          /\ tree' = t
    /\ UNCHANGED <<sweep, calls, downloadDir, watch, schedVars, detVars, lockVars, asmVars>>

\* ------------------------------------------------------- the cue parser
\* Text is a sequence of tokens.  A token is one character (a digit, " ", "(",
\* ")") or a run of characters that no pattern of the code splits: "Song",
\* "Guest", "Main"; "FULL(" and "FULL)" are the full-width parentheses U+FF08
\* and U+FF09, "WITH" is U+4E0E, "WITH_T" its traditional form U+8207, "CHORUS"
\* is U+5408 U+5531.

\* the disc numbers processCueFile is called with
MaxDiscs == 2

Digits == <<"0", "1", "2", "3", "4", "5", "6", "7", "8", "9">>

IsDigit(c) == \E d \in 1..10 : Digits[d] = c

DigitVal(c) == (CHOOSE d \in 1..10 : Digits[d] = c) - 1

\* strconv.Atoi with its error dropped: 0 for anything but a run of digits
RECURSIVE Atoi(_)
Atoi(s) ==
    IF s = <<>> \/ \E k \in 1..Len(s) : ~IsDigit(s[k]) THEN 0
    ELSE IF Len(s) = 1 THEN DigitVal(s[1])
    ELSE 10 * Atoi(SubSeq(s, 1, Len(s) - 1)) + DigitVal(s[Len(s)])

\* the frames are taken for hundredths of a second
ParseCueTimeCenti(parts) ==
    IF Len(parts) # 3 THEN [err |-> TRUE, d |-> 0]
    ELSE [err |-> FALSE,
          d |-> Atoi(parts[1]) * 60 * 1000 + Atoi(parts[2]) * 1000
                + Atoi(parts[3]) * 10]

\* the frames of a second are rounded to the nearest millisecond
ParseCueTimeRounded(parts) ==
    IF Len(parts) # 3 THEN [err |-> TRUE, d |-> 0]
    ELSE [err |-> FALSE,
          d |-> Atoi(parts[1]) * 60 * 1000 + Atoi(parts[2]) * 1000
                + (Atoi(parts[3]) * 1000 + 37) \div 75]

\* parseCueTime, on the parts strings.Split(timeStr, ":") gives; in
\* milliseconds
ParseCueTime(parts) ==
    IF Len(parts) # 3 THEN [err |-> TRUE, d |-> 0]
    ELSE [err |-> FALSE,
          d |-> Atoi(parts[1]) * 60 * 1000 + Atoi(parts[2]) * 1000
                + (Atoi(parts[3]) * 1000) \div 75]

\* a line of a cue sheet: the directive it starts with, the number after
\* TRACK, and what follows the directive: the quoted text, or the timestamp
\* of INDEX 01 as its parts between the colons
Line(k, n, text) == [k |-> k, n |-> n, text |-> text]

TwoDigits(s) == Len(s) = 2 /\ IsDigit(s[1]) /\ IsDigit(s[2])

\* indexRegex, INDEX 01 (\d{2}:\d{2}:\d{2}): what it captures of the line,
\* << >> if it does not match
IndexRegex(l) ==
    IF /\ l.k = "INDEX"
       /\ Len(l.text) >= 3
       /\ TwoDigits(l.text[1])
       /\ TwoDigits(l.text[2])
       /\ Len(l.text[3]) >= 2
       /\ TwoDigits(SubSeq(l.text[3], 1, 2))
    THEN <<l.text[1], l.text[2], SubSeq(l.text[3], 1, 2)>>
    ELSE <<>>

\* fileRegex and titleRegex: the quoted text is not empty
QuotedRegex(l, k) == l.k = k /\ Len(l.text) = 1 /\ l.text[1] # <<>>

\* &Track{Number: num}
NewTrack(num) == [Number |-> num, Title |-> <<>>, StartTime |-> 0]

\* parseCueFile before it reads the file; currentTrack is << >> when nil
NoCue ==
    [pc |-> "read", line |-> 0, WavFile |-> <<>>, Tracks |-> <<>>,
     currentTrack |-> <<>>]

\* processCueFile has not returned
NoDisc ==
    [pc |-> "none", DiscNumber |-> 0, CuePath |-> 0, WavPath |-> <<>>,
     Tracks |-> <<>>]

\* parseCueFile: readTextFileContent
ReadTextFileContent(ok) ==
    /\ cue.pc = "read"
    /\ cue' = [cue EXCEPT !.pc = IF ok THEN "scan" ELSE "failed"]
    /\ UNCHANGED <<sheet, disc, albumVars, descVars, watchVars, schedVars, detVars, lockVars>>

\* a track marker opens a track without appending the one that was open
ScanOneDropsOpen(c, l) ==
    IF QuotedRegex(l, "FILE")
    THEN [c EXCEPT !.WavFile = l.text[1]]
    ELSE IF l.k = "TRACK"
    THEN [c EXCEPT !.currentTrack = <<NewTrack(l.n)>>]
    ELSE IF c.currentTrack # <<>>
    THEN IF QuotedRegex(l, "TITLE")
         THEN [c EXCEPT !.currentTrack[1].Title = l.text[1]]
         ELSE IF IndexRegex(l) # <<>>
         THEN [c EXCEPT !.currentTrack[1].StartTime =
                            ParseCueTime(IndexRegex(l)).d]
         ELSE c
    ELSE c

\* the CueSheet and the open track after one more line
ScanOne(c, l) ==
    IF QuotedRegex(l, "FILE")
    THEN [c EXCEPT !.WavFile = l.text[1]]
    ELSE IF l.k = "TRACK"
    THEN [c EXCEPT !.Tracks = @ \o c.currentTrack,
                   !.currentTrack = <<NewTrack(l.n)>>]
    ELSE IF c.currentTrack # <<>>
    THEN IF QuotedRegex(l, "TITLE")
         THEN [c EXCEPT !.currentTrack[1].Title = l.text[1]]
         ELSE IF IndexRegex(l) # <<>>
         THEN [c EXCEPT !.currentTrack[1].StartTime =
                            ParseCueTime(IndexRegex(l)).d]
         ELSE c
    ELSE c

\* parseCueFile: one pass of the loop over the lines
ScanLine ==
    /\ cue.pc = "scan"
    /\ cue.line < Len(sheet)
    /\ cue' = [ScanOne(cue, sheet[cue.line + 1]) EXCEPT !.line = cue.line + 1]
    /\ UNCHANGED <<sheet, disc, albumVars, descVars, watchVars, schedVars, detVars, lockVars>>

\* a cue sheet without tracks is returned like any other
ScanEndUnchecked(scanErr) ==
    /\ cue.pc = "scan"
    /\ cue.line = Len(sheet)
    /\ cue' = [cue EXCEPT !.Tracks = cue.Tracks \o cue.currentTrack,
                          !.pc = IF scanErr THEN "failed" ELSE "parsed"]
    /\ UNCHANGED <<sheet, disc, albumVars, descVars, watchVars, schedVars, detVars, lockVars>>

\* parseCueFile after the loop: the open track is appended, then the
\* scanner's error and the number of tracks are looked at
Finish(c, scanErr) ==
    LET tracks == c.Tracks \o c.currentTrack
    IN [c EXCEPT !.Tracks = tracks,
                 !.pc = IF scanErr \/ Len(tracks) = 0
                        THEN "failed" ELSE "parsed"]

\* parseCueFile returns
ScanEnd(scanErr) ==
    /\ cue.pc = "scan"
    /\ cue.line = Len(sheet)
    /\ cue' = Finish(cue, scanErr)
    /\ UNCHANGED <<sheet, disc, albumVars, descVars, watchVars, schedVars, detVars, lockVars>>

\* the album the disc belongs to
TheAlbum ==
    [Title |-> <<"Album">>, Artist |-> <<"Main">>, Year |-> <<"1999">>]

\* converter.TradToSim, token by token
TradToSim(s) == [k \in 1..Len(s) |-> IF s[k] = "WITH_T" THEN "WITH" ELSE s[k]]

\* strings.Contains
Contains(s, sub) ==
    \E k \in 1..(Len(s) - Len(sub) + 1) : SubSeq(s, k, k + Len(sub) - 1) = sub

\* strings.TrimSpace
RECURSIVE TrimSpace(_)
TrimSpace(s) ==
    IF s = <<>> THEN s
    ELSE IF Head(s) = " " THEN TrimSpace(Tail(s))
    ELSE IF s[Len(s)] = " " THEN TrimSpace(SubSeq(s, 1, Len(s) - 1))
    ELSE s

\* reFt, (.+)[ FULL(](?:WITH|feat\.)(.+)[FULL))]: the ends <<i, j>> of the
\* two groups of every way it matches title t from its start
ReFtMatches(t) ==
    {m \in (1..Len(t)) \X (1..Len(t)) :
        /\ m[1] + 4 <= m[2]
        /\ t[m[1] + 1] \in {" ", "FULL("}
        /\ t[m[1] + 2] \in {"WITH", "feat."}
        /\ t[m[2]] \in {"FULL)", ")"}}

\* reFt.FindStringSubmatch: both groups are greedy, the first one first
ReFt(t) ==
    IF ReFtMatches(t) = {} THEN <<>>
    ELSE LET i == CHOOSE x \in {m[1] : m \in ReFtMatches(t)} :
                      \A m \in ReFtMatches(t) : m[1] <= x
             j == CHOOSE y \in {m[2] : m \in {n \in ReFtMatches(t) : n[1] = i}} :
                      \A m \in ReFtMatches(t) : m[1] = i => m[2] <= y
         IN <<SubSeq(t, 1, i), SubSeq(t, i + 3, j - 1)>>

\* the test that guards the guest-performer pattern
HasGuestClause(title) ==
    \/ Contains(title, <<" ", "FULL(", "WITH">>)
    \/ Contains(title, <<" ", "(", "WITH">>)

\* every track ends where the last track starts
DiscTrackEndsAtLast(tracks, i, album) ==
    [Number |-> tracks[i].Number,
     Title |-> TradToSim(tracks[i].Title),
     Album |-> album.Title,
     AlbumArtist |-> album.Artist,
     Artist |-> album.Artist,
     Year |-> album.Year,
     StartTime |-> tracks[i].StartTime,
     EndTime |-> IF i + 1 <= Len(tracks)
                 THEN tracks[Len(tracks)].StartTime ELSE 0]

\* processCueFile: the Track of the disc made of track i of the cue sheet
DiscTrack(tracks, i, album) ==
    LET cueTrack == tracks[i]
        title == TradToSim(cueTrack.Title)
        ft == IF HasGuestClause(title) THEN ReFt(title) ELSE <<>>
    IN [Number |-> cueTrack.Number,
        Title |-> IF ft # <<>> THEN TrimSpace(ft[1]) ELSE title,
        Album |-> album.Title,
        AlbumArtist |-> album.Artist,
        Artist |-> IF ft # <<>>
                   THEN album.Artist \o <<",", " ">> \o TradToSim(ft[2])
                   ELSE album.Artist,
        Year |-> album.Year,
        StartTime |-> cueTrack.StartTime,
        EndTime |-> IF i + 1 <= Len(tracks)
                    THEN tracks[i + 1].StartTime ELSE 0]

\* processCueFile after parseCueFile returned c: its error is passed on;
\* else os.Stat looks for the WAV file, which is the album directory itself
\* when the cue sheet names no file; then the Disc is built
DiscOf(c, cuePath, discNumber, exists) ==
    IF c.pc = "failed" THEN [NoDisc EXCEPT !.pc = "error"]
    ELSE IF ~(exists \/ c.WavFile = <<>>)
    THEN [NoDisc EXCEPT !.pc = "error"]
    ELSE [pc |-> "disc",
          DiscNumber |-> discNumber,
          CuePath |-> cuePath,
          WavPath |-> c.WavFile,
          Tracks |-> [i \in 1..Len(c.Tracks) |->
                         DiscTrack(c.Tracks, i, TheAlbum)]]

\* processCueFile returns
ProcessCueFile(discNumber, exists) ==
    /\ disc.pc = "none"
    /\ cue.pc \in {"failed", "parsed"}
    /\ disc' = DiscOf(cue, 1, discNumber, exists)
    /\ UNCHANGED <<sheet, cue, albumVars, descVars, watchVars, schedVars, detVars, lockVars>>

\* no cue file is being parsed
CueInit ==
    /\ sheet = <<>>
    /\ cue = NoCue
    /\ disc = NoDisc

\* ------------------------------------------------- the album assembler
\* the entries of one album directory
MaxEntries == 3

\* parseCueFile on a readable file of the given lines
RECURSIVE ScanAll(_, _)
ScanAll(c, lines) ==
    IF lines = <<>> THEN c ELSE ScanAll(ScanOne(c, Head(lines)), Tail(lines))

ParseCueFile(lines) == Finish(ScanAll([NoCue EXCEPT !.pc = "scan"], lines), FALSE)

\* what filepath.WalkDir hands to its callback: the error of reading the
\* entry, whether it is a directory, the end of its name, whether it lies
\* in a subdirectory; for a cue file its lines and whether the WAV file it
\* names exists
Entry(err, isDir, suffix, nested, lines, wav) ==
    [err |-> err, isDir |-> isDir, suffix |-> suffix, nested |-> nested,
     lines |-> lines, wav |-> wav]

\* a cue sheet of one track, and one without tracks
OneTrack ==
    <<Line("FILE", 0, <<<<"album.wav">>>>), Line("TRACK", 1, <<>>),
      Line("INDEX", 0, <<<<"0", "0">>, <<"0", "0">>, <<"0", "0">>>>)>>

NoTrack == <<Line("FILE", 0, <<<<"album.wav">>>>)>>

Entries ==
    {Entry(FALSE, FALSE, ".cue", FALSE, OneTrack, TRUE),
     Entry(FALSE, FALSE, ".CUE", FALSE, OneTrack, TRUE),
     Entry(FALSE, FALSE, ".cue", FALSE, OneTrack, FALSE),
     Entry(FALSE, FALSE, ".cue", FALSE, NoTrack, TRUE),
     Entry(FALSE, FALSE, ".cue", TRUE, OneTrack, TRUE),
     Entry(FALSE, FALSE, ".wav", FALSE, <<>>, FALSE),
     Entry(FALSE, TRUE, ".cue", FALSE, <<>>, FALSE),
     Entry(TRUE, FALSE, ".cue", FALSE, <<>>, FALSE)}

\* the listings of up to n entries
RECURSIVE Walks(_)
Walks(n) ==
    IF n = 0 THEN {<<>>}
    ELSE Walks(n - 1) \cup
         {Append(l, e) : l \in {x \in Walks(n - 1) : Len(x) = n - 1},
                         e \in Entries}

\* ScanAlbumDirectory before the walk
NoWalk == [pc |-> "walk", at |-> 0, discNumber |-> 1, err |-> FALSE]

\* strings.HasSuffix(strings.ToLower(d.Name()), ".cue")
IsCueName(e) == e.suffix \in {".cue", ".CUE"}

\* the callback returns the error of processCueFile, which ends the walk
VisitAborts ==
    /\ walk.pc = "walk"
    /\ walk.at < Len(listing)
    /\ LET e == listing[walk.at + 1]
           next == [walk EXCEPT !.at = walk.at + 1]
           d == DiscOf(ParseCueFile(e.lines), walk.at + 1, walk.discNumber, e.wav)
       IN IF e.err \/ (~e.isDir /\ IsCueName(e) /\ ~e.nested /\ d.pc # "disc")
          THEN /\ walk' = [next EXCEPT !.err = TRUE, !.pc = "sort"]
               /\ UNCHANGED albumObj
          ELSE IF ~e.isDir /\ IsCueName(e) /\ ~e.nested
          THEN /\ albumObj' = [albumObj EXCEPT !.Discs = Append(@, d)]
               /\ walk' = [next EXCEPT !.discNumber = walk.discNumber + 1]
          ELSE /\ walk' = next
               /\ UNCHANGED albumObj
    /\ UNCHANGED <<listing, cueVars, descVars,
                 watchVars, schedVars, detVars, lockVars>>

\* discNumber counts the cue files, not the discs
VisitCountsFiles ==
    /\ walk.pc = "walk"
    /\ walk.at < Len(listing)
    /\ LET e == listing[walk.at + 1]
           next == [walk EXCEPT !.at = walk.at + 1]
           d == DiscOf(ParseCueFile(e.lines), walk.at + 1, walk.discNumber, e.wav)
       IN IF e.err
          THEN /\ walk' = [next EXCEPT !.err = TRUE, !.pc = "sort"]
               /\ UNCHANGED albumObj
          ELSE IF ~e.isDir /\ IsCueName(e) /\ ~e.nested
          THEN /\ albumObj' = IF d.pc = "disc"
                              THEN [albumObj EXCEPT !.Discs = Append(@, d)]
                              ELSE albumObj
               /\ walk' = [next EXCEPT !.discNumber = walk.discNumber + 1]
          ELSE /\ walk' = next
               /\ UNCHANGED albumObj
    /\ UNCHANGED <<listing, cueVars, descVars,
                 watchVars, schedVars, detVars, lockVars>>

\* the callback of filepath.WalkDir for the next entry
Visit ==
    /\ walk.pc = "walk"
    /\ walk.at < Len(listing)
    /\ LET e == listing[walk.at + 1]
           next == [walk EXCEPT !.at = walk.at + 1]
           d == DiscOf(ParseCueFile(e.lines), walk.at + 1, walk.discNumber, e.wav)
       IN IF e.err
          THEN /\ walk' = [next EXCEPT !.err = TRUE, !.pc = "sort"]
               /\ UNCHANGED albumObj
          ELSE IF ~e.isDir /\ IsCueName(e) /\ ~e.nested /\ d.pc = "disc"
          THEN /\ albumObj' = [albumObj EXCEPT !.Discs = Append(@, d)]
               /\ walk' = [next EXCEPT !.discNumber = walk.discNumber + 1]
          ELSE /\ walk' = next
               /\ UNCHANGED albumObj
    /\ UNCHANGED <<listing, cueVars, descVars,
                 watchVars, schedVars, detVars, lockVars>>

\* filepath.WalkDir returns after the last entry
WalkEnd ==
    /\ walk.pc = "walk"
    /\ walk.at = Len(listing)
    /\ walk' = [walk EXCEPT !.pc = "sort"]
    /\ UNCHANGED <<listing, albumObj, cueVars, descVars,
                 watchVars, schedVars, detVars, lockVars>>

\* sort.Slice by DiscNumber
RECURSIVE SortDiscs(_)
SortDiscs(ds) ==
    IF ds = <<>> THEN ds
    ELSE LET k == CHOOSE i \in 1..Len(ds) :
                      \A j \in 1..Len(ds) : ds[i].DiscNumber <= ds[j].DiscNumber
         IN <<ds[k]>> \o SortDiscs(SubSeq(ds, 1, k - 1) \o SubSeq(ds, k + 1, Len(ds)))

\* ScanAlbumDirectory sorts the discs and returns albumObj and the error
SortAndReturn ==
    /\ walk.pc = "sort"
    /\ albumObj' = [albumObj EXCEPT !.Discs = SortDiscs(@)]
    /\ walk' = [walk EXCEPT !.pc = "done"]
    /\ UNCHANGED <<listing, cueVars, descVars,
                 watchVars, schedVars, detVars, lockVars>>

\* no album is being assembled
AlbumInit ==
    /\ listing = <<>>
    /\ walk = [NoWalk EXCEPT !.pc = "idle"]
    /\ albumObj = [Discs |-> <<>>]

\* ------------------------------------------------- the album descriptor
\* Text is a sequence of tokens, as above: "NL" is a line break, "<<" is
\* U+300A, "NAME:" and "DATE:" are the labels of the album name and of the
\* publication date, "NIAN" is U+5E74, "1999" is a run of four digits.

\* tokens of Info.txt
MaxContent == 4

\* tokens of the base name of the directory
MaxName == 4

\* \s
WhiteSpace == {" ", "NL"}

Years == {"1999"}

\* the sentinel
UnknownArtist == <<"Unknown Artist">>

\* a submatch: whether the pattern matched, and its group
Found(g) == [ok |-> TRUE, g |-> g]

NotFound == [ok |-> FALSE, g |-> <<>>]

\* the end of the line that position q of t is on
LineEnd(t, q) ==
    CHOOSE e \in q..Len(t) :
        /\ \A x \in q..e : t[x] # "NL"
        /\ e = Len(t) \/ t[e + 1] = "NL"

\* reAlbumName, NAME:\s*(.+): the places where the group can start after the
\* label at p
NameStarts(t, p) ==
    {q \in (p + 1)..Len(t) :
        /\ t[q] # "NL"
        /\ \A x \in (p + 1)..(q - 1) : t[x] \in WhiteSpace}

\* reAlbumName.FindStringSubmatch: the leftmost label that matches; \s* takes
\* all the white space it can
ReAlbumName(t) ==
    LET ps == {p \in 1..Len(t) : t[p] = "NAME:" /\ NameStarts(t, p) # {}}
    IN IF ps = {} THEN NotFound
       ELSE LET p == CHOOSE x \in ps : \A y \in ps : x <= y
                q == CHOOSE x \in NameStarts(t, p) :
                         \A y \in NameStarts(t, p) : y <= x
            IN Found(SubSeq(t, q, LineEnd(t, q)))

\* reDate, DATE:\s*(\d{4})NIAN
ReDate(t) ==
    LET qs == {q \in 2..(Len(t) - 1) :
                  /\ t[q] \in Years
                  /\ t[q + 1] = "NIAN"
                  /\ \E p \in 1..(q - 1) :
                        /\ t[p] = "DATE:"
                        /\ \A x \in (p + 1)..(q - 1) : t[x] \in WhiteSpace}
    IN IF qs = {} THEN NotFound
       ELSE Found(<<t[CHOOSE x \in qs : \A y \in qs : x <= y]>>)

\* reArtist, ^(.+)<<, on the first line: the group is greedy
ReArtist(t) ==
    LET is == {i \in 1..(Len(t) - 1) :
                  /\ t[i + 1] = "<<"
                  /\ \A x \in 1..i : t[x] # "NL"}
    IN IF is = {} THEN NotFound
       ELSE Found(SubSeq(t, 1, CHOOSE x \in is : \A y \in is : y <= x))

\* parseInfoContent: the Artist, Title and Year of the album
ParseInfoContent(content) ==
    [Artist |-> IF ReArtist(content).ok
                THEN TrimSpace(ReArtist(content).g) ELSE UnknownArtist,
     Title |-> IF ReAlbumName(content).ok
               THEN TrimSpace(ReAlbumName(content).g) ELSE <<>>,
     Year |-> IF ReDate(content).ok THEN TrimSpace(ReDate(content).g) ELSE <<>>]

\* (?:\s*\(?(\d{4})\)?): s is a year y, in parentheses or not, after spaces
YearMatch(s, y) ==
    \E a \in 0..Len(s), o \in {0, 1}, c \in {0, 1} :
        /\ Len(s) = a + o + 1 + c
        /\ \A x \in 1..a : s[x] = " "
        /\ o = 1 => s[a + 1] = "("
        /\ s[a + o + 1] = y
        /\ c = 1 => s[Len(s)] = ")"

\* (?:\s+WAV\+CUE)
WavCueMatch(s) ==
    /\ Len(s) >= 2
    /\ s[Len(s)] = "WAV+CUE"
    /\ \A x \in 1..(Len(s) - 1) : s[x] = " "

\* (?:\s*\(?(\d{4})\)?)?(?:\s+WAV\+CUE)?$ on the rest r of the name: the
\* years it can capture, << >> standing for no year
TailYears(r) ==
    {y \in {<<z>> : z \in Years} \cup {<<>>} :
        \E k \in 0..Len(r) :
            /\ IF y = <<>> THEN k = 0 ELSE YearMatch(SubSeq(r, 1, k), y[1])
            /\ k = Len(r) \/ WavCueMatch(SubSeq(r, k + 1, Len(r)))}

\* the lazy group (.+?) from position s of t and the year after it
LazyGroup(t, s) ==
    LET j == CHOOSE x \in s..Len(t) :
                 /\ TailYears(SubSeq(t, x + 1, Len(t))) # {}
                 /\ \A y \in s..(x - 1) : TailYears(SubSeq(t, y + 1, Len(t))) = {}
        ys == TailYears(SubSeq(t, j + 1, Len(t)))
    IN [group |-> SubSeq(t, s, j),
        year |-> IF ys = {<<>>} THEN <<>> ELSE CHOOSE y \in ys : y # <<>>]

\* reFull, ^(.+?)\s*-\s*(.+?)...$: the ends i of the first group for which
\* the rest can match: spaces, "-", and something after it
FullEnds(t) ==
    {i \in 1..Len(t) :
        \E p \in (i + 1)..(Len(t) - 1) :
            /\ t[p] = "-"
            /\ \A x \in (i + 1)..(p - 1) : t[x] = " "}

\* reFull.FindStringSubmatch: the first group is the shortest one, the \s*
\* after "-" takes all the spaces it can leave the second group a token
ReFull(t) ==
    IF FullEnds(t) = {} THEN <<>>
    ELSE LET i == CHOOSE x \in FullEnds(t) : \A y \in FullEnds(t) : x <= y
             p == CHOOSE x \in (i + 1)..Len(t) :
                      t[x] = "-" /\ \A y \in (i + 1)..(x - 1) : t[y] = " "
             ss == {q \in (p + 1)..Len(t) : \A x \in (p + 1)..(q - 1) : t[x] = " "}
             q == CHOOSE x \in ss : \A y \in ss : y <= x
         IN <<SubSeq(t, 1, i), LazyGroup(t, q).group, LazyGroup(t, q).year>>

\* reSimple, ^(.+?)...$
ReSimple(t) ==
    IF t = <<>> THEN <<>>
    ELSE <<LazyGroup(t, 1).group, LazyGroup(t, 1).year>>

\* parseArtistTitleYearFromDir
ParseArtistTitleYearFromDir(dirName) ==
    IF ReFull(dirName) # <<>>
    THEN [Artist |-> TrimSpace(ReFull(dirName)[1]),
          Title |-> TrimSpace(ReFull(dirName)[2]),
          Year |-> ReFull(dirName)[3]]
    ELSE IF ReSimple(dirName) # <<>>
    THEN [Artist |-> UnknownArtist,
          Title |-> TrimSpace(ReSimple(dirName)[1]),
          Year |-> ReSimple(dirName)[2]]
    ELSE [Artist |-> UnknownArtist, Title |-> dirName, Year |-> <<>>]

\* &album.Album{Path: rootPath}
NoMeta == [pc |-> "new", Artist |-> <<>>, Title |-> <<>>, Year |-> <<>>]

\* ScanAlbumDirectory: Info.txt is read and parsed, or else the name of the
\* directory is
Describe ==
    /\ meta.pc = "new"
    /\ meta' = [pc |-> "described"] @@
               (IF source.readable THEN ParseInfoContent(source.content)
                ELSE ParseArtistTitleYearFromDir(source.dirName))
    /\ UNCHANGED <<source, cueVars, albumVars, watchVars, schedVars, detVars, lockVars>>

\* ScanAlbumDirectory: the artist and the title are converted
Normalize ==
    /\ meta.pc = "described"
    /\ meta' = [meta EXCEPT !.pc = "done",
                            !.Artist = TradToSim(@),
                            !.Title = TradToSim(@)]
    /\ UNCHANGED <<source, cueVars, albumVars, watchVars, schedVars, detVars, lockVars>>

\* no album is being described
DescInit ==
    /\ source = [readable |-> FALSE, content |-> <<>>, dirName |-> <<"Title">>]
    /\ meta = NoMeta

\* none of them is run
AsmInit ==
    /\ CueInit
    /\ AlbumInit
    /\ DescInit

\* ------------------------------------------ the lock of the pending map
\* the goroutine that calls TriggerScan from outside the scheduler
Watcher == MaxTimers + 1

Goroutines == TimerIds \cup {Watcher}

\* the lock is taken whether it is held or not
PendingMutexIgnored == TRUE

\* ts.pendingScansMutex.Lock() returns only when nobody holds the lock
PendingMutexFree == pendingScansMutex = 0

\* no TriggerScan is running outside the scheduler
NoCall == [pc |-> "idle", dir |-> 0]

\* the event consumer or the startup sweep calls TriggerScan(d)
CallTrigger(d) ==
    /\ caller.pc = "idle"
    /\ ~settled
    /\ CanArm
    /\ caller' = [pc |-> "lock", dir |-> d]
    /\ UNCHANGED <<pendingScansMutex, tsLocal, schedVars, detVars, watchVars, asmVars>>

\* TriggerScan: ts.pendingScansMutex.Lock()
CallLock ==
    /\ caller.pc = "lock"
    /\ PendingMutexFree
    /\ CanRearm
    /\ pendingScansMutex' = Watcher
    /\ caller' = [caller EXCEPT !.pc = "stop"]
    /\ UNCHANGED <<tsLocal, schedVars, detVars, watchVars, asmVars>>

\* TriggerScan: the map is read, the timer found is stopped, a timer is armed
CallStopArm ==
    /\ caller.pc = "stop"
    /\ timers' = TriggerScanTimers(timers, pendingScans, caller.dir)
    /\ tsLocal' = [tsLocal EXCEPT ![Watcher] =
                      NewTimer(TriggerScanStop(timers, pendingScans, caller.dir))]
    /\ caller' = [caller EXCEPT !.pc = "store"]
    /\ UNCHANGED <<pendingScansMutex, pendingScans, scanMutex, ledger, scan,
                   effects, detVars, watchVars, asmVars>>

\* TriggerScan: ts.pendingScans[dirPath] = timer
CallStore ==
    /\ caller.pc = "store"
    /\ pendingScans' = [pendingScans EXCEPT ![caller.dir] = tsLocal[Watcher]]
    /\ caller' = [caller EXCEPT !.pc = "unlock"]
    /\ UNCHANGED <<pendingScansMutex, tsLocal, timers, scanMutex, ledger, scan,
                   effects, detVars, watchVars, asmVars>>

\* TriggerScan returns without the deferred Unlock
CallUnlockKeeps ==
    /\ caller.pc = "unlock"
    /\ caller' = NoCall
    /\ tsLocal' = [tsLocal EXCEPT ![Watcher] = 0]
    /\ UNCHANGED <<pendingScansMutex, schedVars, detVars, watchVars, asmVars>>

\* TriggerScan returns: the deferred ts.pendingScansMutex.Unlock()
CallUnlock ==
    /\ caller.pc = "unlock"
    /\ pendingScansMutex' = 0
    /\ caller' = NoCall
    /\ tsLocal' = [tsLocal EXCEPT ![Watcher] = 0]
    /\ UNCHANGED <<schedVars, detVars, watchVars, asmVars>>

\* performScan calls TriggerScan(dir): ts.pendingScansMutex.Lock()
ReLock(t) ==
    /\ timers[t].pc = "resched"
    /\ PendingMutexFree
    /\ CanRearm
    /\ pendingScansMutex' = t
    /\ timers' = [timers EXCEPT ![t].pc = "r_stop"]
    /\ UNCHANGED <<caller, tsLocal, pendingScans, scanMutex, ledger, scan,
                   effects, detVars, watchVars, asmVars>>

\* the same TriggerScan: the map is read, the timer found is stopped, a
\* timer is armed
ReStopArm(t) ==
    /\ timers[t].pc = "r_stop"
    /\ timers' = [TriggerScanTimers(timers, pendingScans, timers[t].dir)
                     EXCEPT ![t].pc = "r_store"]
    /\ tsLocal' = [tsLocal EXCEPT ![t] =
                      NewTimer(TriggerScanStop(timers, pendingScans, timers[t].dir))]
    /\ UNCHANGED <<pendingScansMutex, caller, pendingScans, scanMutex, ledger,
                   scan, effects, detVars, watchVars, asmVars>>

\* the same TriggerScan: ts.pendingScans[dirPath] = timer
ReStore(t) ==
    /\ timers[t].pc = "r_store"
    /\ pendingScans' = [pendingScans EXCEPT ![timers[t].dir] = tsLocal[t]]
    /\ timers' = [timers EXCEPT ![t].pc = "r_unlock"]
    /\ UNCHANGED <<pendingScansMutex, caller, tsLocal, scanMutex, ledger, scan,
                   effects, detVars, watchVars, asmVars>>

\* the same TriggerScan returns: the deferred Unlock
ReUnlock(t) ==
    /\ timers[t].pc = "r_unlock"
    /\ pendingScansMutex' = 0
    /\ tsLocal' = [tsLocal EXCEPT ![t] = 0]
    /\ timers' = [timers EXCEPT ![t].pc = "r_return"]
    /\ UNCHANGED <<caller, pendingScans, scanMutex, ledger, scan, effects,
                   detVars, watchVars, asmVars>>

\* performScan returns after the reschedule: the deferred ts.scanMutex.Unlock()
ReReturn(t) ==
    /\ timers[t].pc = "r_return"
    /\ timers' = Return(timers, t)
    /\ scan' = Log("trigger")
    /\ scanMutex' = 0
    /\ effects' = Forget(effects, t)
    /\ UNCHANGED <<pendingScans, ledger, lockVars, detVars, watchVars, asmVars>>

\* the callback after performScan: ts.pendingScansMutex.Lock()
DelLock(t) ==
    /\ timers[t].pc = "delete"
    /\ PendingMutexFree
    /\ pendingScansMutex' = t
    /\ timers' = [timers EXCEPT ![t].pc = "d_delete"]
    /\ UNCHANGED <<caller, tsLocal, pendingScans, scanMutex, ledger, scan,
                   effects, detVars, watchVars, asmVars>>

\* the callback: delete(ts.pendingScans, dirPath)
DelDelete(t) ==
    /\ timers[t].pc = "d_delete"
    /\ pendingScans' = [pendingScans EXCEPT ![timers[t].dir] = 0]
    /\ timers' = [timers EXCEPT ![t].pc = "d_unlock"]
    /\ UNCHANGED <<scanMutex, ledger, scan, effects, lockVars, detVars,
                   watchVars, asmVars>>

\* the callback: ts.pendingScansMutex.Unlock(), and its end
DelUnlock(t) ==
    /\ timers[t].pc = "d_unlock"
    /\ pendingScansMutex' = 0
    /\ timers' = [timers EXCEPT ![t] = NoTimer]
    /\ scan' = IF scan.id = t THEN NoScan ELSE scan
    /\ UNCHANGED <<caller, tsLocal, pendingScans, scanMutex, ledger, effects,
                   detVars, watchVars, asmVars>>

\* nobody holds the lock, nobody calls
LockInit ==
    /\ pendingScansMutex = 0
    /\ caller = NoCall
    /\ tsLocal = [g \in Goroutines |-> 0]

\* ---------------------------------------------------------- specifications
\* before InitialScan, with some album directory in the download root
WatchInit ==
    /\ tree = [q \in Paths |-> IF q \in Children THEN "dir" ELSE "none"]
    /\ sweep = NoSweep
    /\ calls = <<>>
    /\ downloadDir = "below"
    /\ watch = NoWatch

\* nothing of the front end has run
FrontInit ==
    /\ WatchInit
    /\ AsmInit
    /\ LockInit

\* the scheduler's variables when nothing has been scheduled
SchedInit ==
    /\ timers = [t \in TimerIds |-> NoTimer]
    /\ pendingScans = [d \in Dirs |-> 0]
    /\ scanMutex = 0
    /\ scan = NoScan
    /\ effects = <<>>

\* the detector's variables when it does not run
DetInit ==
    /\ files = NoFiles
    /\ det = Idle
    /\ changed = [f \in Files |-> Never]
    /\ undone = [f \in Files |-> FALSE]
    /\ settled = FALSE

\* the durations of the reference configuration: an interval of one tick
DefaultConfig == [interval |-> 1, quiet |-> MaxQuiet, maxWait |-> MaxWait]

\* NewTaskScheduler; the ledger is persistent and may hold earlier results
Init ==
    /\ FrontInit
    /\ SchedInit
    /\ ledger \in SUBSET Dirs
    /\ cfg = DefaultConfig
    /\ DetInit

Next ==
    \/ \E d \in Dirs : TriggerScan(d)
    \/ \E t \in TimerIds : TimerFire(t)
    \/ \E t \in TimerIds : LockScan(t)
    \/ \E t \in TimerIds : StabilityVerdict(t)
    \/ \E t \in TimerIds : Reschedule(t)
    \/ \E t \in TimerIds : LedgerCheck(t)
    \/ \E t \in TimerIds : Assemble(t)
    \/ \E t \in TimerIds : Fetch(t)
    \/ \E t \in TimerIds : Process(t)
    \/ \E t \in TimerIds : Mark(t)
    \/ \E t \in TimerIds : DeletePending(t)

Spec == Init /\ [][Next]_vars

\* the detector alone, in any configuration and in any directory
InitStab ==
    /\ FrontInit
    /\ SchedInit
    /\ ledger = {}
    /\ cfg \in Configs
    /\ files \in [Files -> {0} \cup Pairs]
    /\ det = Idle
    /\ changed = [f \in Files |-> Never]
    /\ undone = [f \in Files |-> FALSE]
    /\ settled = FALSE

NextStab ==
    \/ WaitStart
    \/ Poll
    \/ Wake
    \/ WaitEnd
    \/ Tick
    \/ \E f \in Files : FileCreate(f)
    \/ \E f \in Files : FileWrite(f)
    \/ \E f \in Files : FileRemove(f)

SpecStab == InitStab /\ [][NextStab]_vars

\* ------------------------------------------------- claims on the scheduler
\* the callbacks inside performScan's critical section
Scanning == {t \in TimerIds : timers[t].pc \in InScan}

\* the armed delays of directory d
ArmedFor(d) == {t \in TimerIds : timers[t].pc = "armed" /\ timers[t].dir = d}

\* the scan recorded in scan has returned from performScan
ScanEnded == scan.id # 0 /\ timers[scan.id].pc = "delete"

\* the directory of the i-th recorded side effect
EffectDir(i) == timers[effects[i]].dir

\* what performScan calls once the files are stable, and what comes back
AfterStable == {"ledger_yes", "ledger_no", "ledger_err", "scan_err", "discs0",
                "discs1", "fetch", "process_ok", "process_err", "mark"}

\* C1: at most one callback is inside performScan's critical section, and the
\* downstream side effects (metadata fetch, ProcessAlbum, ledger mark) of two
\* directories are never interleaved.
C1_OneScanAtATime ==
    /\ Cardinality(Scanning) <= 1
    /\ \A i, j, k \in DOMAIN effects :
          i < j /\ j < k /\ EffectDir(i) = EffectDir(k) => EffectDir(j) = EffectDir(i)

\* C1 witness: a scan has reached its ledger mark, with the fetch and the
\* processing behind it, while the fired callback of the other directory waits
\* for scanMutex.
C1_Witness ==
    \E t, u \in TimerIds :
        /\ timers[t].pc = "mark" /\ effects = <<t, t>>
        /\ timers[u].pc = "lock" /\ timers[u].dir # timers[t].dir

\* C2: a TriggerScan(d) call made while a delay for d is armed leaves exactly
\* one armed delay for d (the earlier one is cancelled), so a run of N re-arms
\* ends in one scan, not N.
C2_RearmCancels ==
    [][\A d \in Dirs :
          /\ pendingScans'[d] # 0
          /\ pendingScans'[d] # pendingScans[d]
          /\ ArmedFor(d) # {}
          => ArmedFor(d)' = {pendingScans'[d]}]_vars

\* C3: the ledger lookup, the assembler and the processor run only after a
\* stable verdict of the same scan; after an unstable verdict the scan calls
\* TriggerScan once and returns, and calls nothing else.
C3_StabilityGate ==
    /\ \A i \in DOMAIN scan.log : scan.log[i] \in AfterStable => scan.log[1] = "stable"
    /\ scan.log # <<>> /\ scan.log[1] = "unstable"
          => /\ scan.log \in {<<"unstable">>, <<"unstable", "trigger">>}
             /\ ledger = scan.before
             /\ ScanEnded <=> scan.log = <<"unstable", "trigger">>

\* C3 witness: a scan with an unstable verdict has called TriggerScan and
\* returned.
C3_Witness == ScanEnded /\ scan.log = <<"unstable", "trigger">>

\* C4: a scan that finds its directory processed in the ledger, after a stable
\* verdict, calls neither assembler nor fetcher nor processor, leaves the
\* ledger as it was, logs no error, arms no delay, and returns.
C4_ProcessedSkipped ==
    (\E i \in DOMAIN scan.log : scan.log[i] = "ledger_yes")
        => /\ scan.log = <<"stable", "ledger_yes">>
           /\ ledger = scan.before
           /\ ScanEnded

\* C4 witness: a scan of a processed directory has returned, and the map still
\* holds the entry of its own, fired timer.
C4_Witness ==
    /\ ScanEnded
    /\ scan.log = <<"stable", "ledger_yes">>
    /\ scan.dir \in ledger
    /\ pendingScans[scan.dir] = scan.id

\* C5: the ledger gains directory d only in a step of a scan of d whose
\* ProcessAlbum call returned nil; a ProcessAlbum error ends the scan with the
\* ledger as the scan found it.
C5_MarkOnlyOnSuccess ==
    /\ [][\A d \in Dirs :
             d \in ledger' /\ d \notin ledger
             => /\ scanMutex # 0 /\ scan.id = scanMutex
                /\ timers[scanMutex].dir = d
                /\ scan.log[Len(scan.log)] = "process_ok"]_vars
    /\ []((\E i \in DOMAIN scan.log : scan.log[i] = "process_err")
             => /\ ledger = scan.before
                /\ scan.log[Len(scan.log)] = "process_err")

\* C5 witness: a scan whose ProcessAlbum call succeeded has marked its
\* directory, which the ledger did not hold before.
C5_Witness ==
    /\ ScanEnded
    /\ scan.log[Len(scan.log)] = "mark"
    /\ scan.dir \in ledger /\ scan.dir \notin scan.before

\* an error reported to the scan by one of its steps
ScanErrors == {"ledger_err", "scan_err", "process_err"}

\* C6 as claimed: a scan in which the ledger lookup, the assembler or the
\* processor reported an error does not mark the ledger and arms no retry.
C6_AnyErrorLeavesUnprocessed ==
    (\E i \in DOMAIN scan.log : scan.log[i] \in ScanErrors)
        => /\ ledger = scan.before
           /\ \A i \in DOMAIN scan.log : scan.log[i] \notin {"mark", "trigger"}

\* C6 amended: an error of the assembler or of the processor ends the scan
\* with the ledger unmarked and no retry armed; an error of the ledger lookup
\* is only logged, and the scan goes on to the assembler as for an
\* unprocessed directory.
C6_ErrorLeavesUnprocessed ==
    /\ (\E i \in DOMAIN scan.log : scan.log[i] \in {"scan_err", "process_err"})
          => /\ ledger = scan.before
             /\ \A i \in DOMAIN scan.log : scan.log[i] \notin {"mark", "trigger"}
             /\ scan.log[Len(scan.log)] \in {"scan_err", "process_err"}
             /\ ScanEnded
    /\ scan.log # <<>> /\ scan.log[Len(scan.log)] = "ledger_err"
          => timers[scan.id].pc = "scan"

\* C6 witness: the assembler's error has ended a scan.
C6_Witness ==
    /\ ScanEnded
    /\ scan.log[Len(scan.log)] = "scan_err"
    /\ scan.dir \notin ledger

\* C10: an album without discs, for a stable directory the ledger does not
\* report processed, ends the scan: no fetch, no processing, no ledger mark,
\* no reschedule, no error.
C10_NoDiscsNoProcessing ==
    (\E i \in DOMAIN scan.log : scan.log[i] = "discs0")
        => /\ scan.log \in {<<"stable", "ledger_no", "discs0">>,
                            <<"stable", "ledger_err", "discs0">>}
           /\ ledger = scan.before
           /\ effects = <<>>
           /\ ScanEnded

\* C10 witness: a scan of an unprocessed directory got an album without discs
\* and returned.
C10_Witness ==
    /\ ScanEnded
    /\ scan.log = <<"stable", "ledger_no", "discs0">>
    /\ scan.dir \notin ledger

\* ------------------------------------------------------------------------
\* the detector has just returned stable
ReturnsStable == det.pc = "done" /\ det.result

\* file f is present and its pair changed less than the quiet duration ago
ChangedLately(f) ==
    files[f] # 0 /\ changed[f] # Never /\ changed[f] < cfg.quiet

\* the detector leaves the loop test of its first pass on an empty directory
FirstPassEmpty ==
    det.pc = "poll" /\ det.polls = 0 /\ files = NoFiles /\ det' # det

C8_EmptyStableAtOnce ==
    [][FirstPassEmpty /\ det'.listed \notin {"listErr", "statErr"} =>
          det'.pc = "done" /\ det'.result /\ det'.polls = 1]_vars

\* ------------------------------------------------------------------------
\* the directory whose files the combined specification follows
Watched == CHOOSE d \in Dirs : \A e \in Dirs : d <= e

\* the configurations in which the poll interval is no longer than the quiet
\* duration, and the maximum wait is longer than one quiet duration plus one
\* poll interval, by no more than a tick
ConvergentConfigs ==
    {c \in Configs :
        c.interval <= c.quiet /\ c.maxWait = c.quiet + c.interval + 1}

\* the watcher sees the directory appear in the download root, nothing being
\* scheduled, and calls TriggerScan
DirectoryCreated ==
    /\ FreeTimers = MaxTimers
    /\ TriggerScan(Watched)

\* the scheduler scanning one directory with the detector, while a download
\* into the directory goes on and then ends
InitConv ==
    /\ FrontInit
    /\ SchedInit
    /\ ledger = {}
    /\ cfg \in ConvergentConfigs
    /\ DetInit

\* a step of the callback of timer t, once it has the lock
ScanStep(t) ==
    \/ StabilityCall(t)
    \/ StabilityReturn(t)
    \/ Reschedule(t)
    \/ LedgerCheck(t)
    \/ Assemble(t)
    \/ Fetch(t)
    \/ Process(t)
    \/ Mark(t)
    \/ DeletePending(t)

NextConv ==
    \/ DirectoryCreated
    \/ \E t \in TimerIds : TimerFire(t)
    \/ \E t \in TimerIds : LockScan(t)
    \/ \E t \in TimerIds : ScanStep(t)
    \/ Poll
    \/ Wake
    \/ Tick
    \/ Download
    \/ Settle

\* every timer fires, every goroutine that can run does, sync.Mutex hands the
\* lock to every waiter in turn, the clock advances, and the download ends
FairConv ==
    /\ \A t \in TimerIds : WF_vars(TimerFire(t) \/ ScanStep(t))
    /\ \A t \in TimerIds : SF_vars(LockScan(t))
    /\ WF_vars(Poll \/ Wake)
    /\ WF_vars(Tick)
    /\ WF_vars(Settle)

SpecConv == InitConv /\ [][NextConv]_vars /\ FairConv

\* a scan of the watched directory is due: a timer is armed, or its callback
\* has not yet had the verdict of the detector, or is about to reschedule
Due ==
    \E t \in TimerIds :
        timers[t].pc \in {"armed", "lock", "stab", "wait", "resched"}

\* a scan has just had an unstable verdict
Unstable == \E t \in TimerIds : timers[t].pc = "resched"

\* a scan has just had a stable verdict
Stable == \E t \in TimerIds : timers[t].pc = "ledger"

\* a scan has just taken the lock
ScanBegins == \E t \in TimerIds : timers[t].pc = "stab"

\* C9: when the download into a triggered directory has ended, the directory
\* stays listable and the maximum wait is longer than one quiet duration plus
\* one poll interval, a scan of the directory gets a stable verdict and the
\* scans stop rescheduling themselves; and every unstable verdict is followed
\* by the beginning of another scan of the directory.
C9_Convergence ==
    /\ (settled /\ Due) ~> Stable
    /\ settled ~> [](~Unstable)
    /\ Unstable ~> ScanBegins

\* C9 happens: the download has ended, files are there, and a scan that was
\* armed by a reschedule (the callback that armed it has since removed the
\* entry of the directory) has just had a stable verdict
C9_Witness ==
    /\ settled
    /\ files # NoFiles
    /\ \E t \in TimerIds :
          /\ timers[t].pc = "ledger"
          /\ pendingScans[timers[t].dir] = 0
          /\ scan.id = t /\ scan.log = <<"stable">>

\* ------------------------------------------------------------------------
\* the startup sweep, over any download root and any ledger
InitSweep ==
    /\ SchedInit
    /\ ledger \in SUBSET Dirs
    /\ cfg = DefaultConfig
    /\ DetInit
    /\ tree \in Trees
    /\ sweep = NoSweep
    /\ calls = <<>>
    /\ downloadDir = "below"
    /\ watch = NoWatch
    /\ AsmInit
    /\ LockInit

NextSweep ==
    \/ SweepList
    \/ SweepEntry
    \/ SweepEnd

SpecSweep == InitSweep /\ [][NextSweep]_vars

\* the number of TriggerScan(q) calls made
Called(q) == Cardinality({i \in 1..Len(calls) : calls[i] = q})

\* C11: when InitialScan has returned after listing the root, it has called
\* TriggerScan once for each immediate subdirectory that the ledger did not
\* report as processed and for nothing else (no subdirectory reported as
\* processed, no file of the root, no nested directory), and the ledger
\* reported only processed directories; when the root could not be listed it
\* has called nothing.
C11_SweepTriggersUnprocessed ==
    sweep.pc = "done" =>
        /\ \A q \in Paths :
              Called(q) =
                 IF sweep.listed /\ q \in Children /\ IsDir(tree, q)
                       /\ q \notin sweep.reported
                 THEN 1 ELSE 0
        /\ \A q \in sweep.reported : Base(q) \in ledger

\* C11 happens: the sweep has returned from a root holding a processed
\* directory with a nested directory and an entry that was triggered
C11_Witness ==
    /\ sweep.pc = "done" /\ sweep.listed
    /\ calls # <<>>
    /\ sweep.reported # {}
    /\ \E q \in Paths : Len(q) > 1 /\ IsDir(tree, q)

\* ------------------------------------------------------------------------
\* the watcher loop, for either kind of download root and any tree
InitWatch ==
    /\ SchedInit
    /\ ledger = {}
    /\ cfg = DefaultConfig
    /\ DetInit
    /\ tree \in Trees
    /\ sweep = NoSweep
    /\ calls = <<>>
    /\ downloadDir \in {"below", "top"}
    /\ watch = NoWatch
    /\ AsmInit
    /\ LockInit

NextWatch ==
    \/ \E e \in Events : WatchEvent(e)
    \/ TreeChange

SpecWatch == InitWatch /\ [][NextWatch]_vars

\* the handling of an event: the event, and the calls it made
Handled == watch' # watch

\* C12: every TriggerScan call the watcher loop makes for an event has an
\* immediate child of the download root as its argument, and the loop makes
\* no call for an event on the root itself or on an entry of the root that
\* is not a directory.
C12_WatcherTriggersChildren ==
    [][Handled =>
          /\ \A i \in (Len(calls) + 1)..Len(calls') : calls'[i] \in Children
          /\ (\/ watch'.event.name = Root
              \/ /\ watch'.event.name \in Children
                 /\ ~IsDirectory(watch'.event.name))
                => calls' = calls]_vars

\* ------------------------------------------- processCueFile on a cue file
\* timestamps of INDEX 01 lines: 00:00:00, 03:30:00, 07:12:50, and 03:xx:00
Stamp(m, sec, f) == <<m, sec, f>>

Stamps ==
    {Stamp(<<"0", "0">>, <<"0", "0">>, <<"0", "0">>),
     Stamp(<<"0", "3">>, <<"3", "0">>, <<"0", "0">>),
     Stamp(<<"0", "7">>, <<"1", "2">>, <<"5", "0">>),
     Stamp(<<"0", "3">>, <<"x", "x">>, <<"0", "0">>)}

\* titles of TITLE lines: plain, with a guest clause right after the title,
\* and with a space before the clause, in traditional script
Titles ==
    {<<"Song">>,
     <<"Song", "FULL(", "WITH", "Guest", "CHORUS", "FULL)">>,
     <<"Song", " ", "FULL(", "WITH_T", "Guest", "CHORUS", "FULL)">>}

FileLine == Line("FILE", 0, <<<<"album.wav">>>>)

\* what a cue sheet has before its first track: nothing, the FILE line, or
\* the album's TITLE line and the FILE line
Heads ==
    {<<>>, <<FileLine>>, <<Line("TITLE", 0, <<<<"Album">>>>), FileLine>>}

\* track n of a cue sheet: its TRACK, TITLE and INDEX 01 lines
Blocks(n) ==
    {<<Line("TRACK", n, <<>>), Line("TITLE", 0, <<t>>), Line("INDEX", 0, s)>> :
        t \in Titles, s \in Stamps}

\* the cue sheets of n tracks
RECURSIVE Bodies(_)
Bodies(n) ==
    IF n = 0 THEN Heads
    ELSE {h \o b : h \in Bodies(n - 1), b \in Blocks(n)}

Sheets == UNION {Bodies(n) : n \in 0..MaxTracks}

\* processCueFile is called for a cue file of the album directory
InitCue ==
    /\ WatchInit
    /\ SchedInit
    /\ ledger = {}
    /\ cfg = DefaultConfig
    /\ DetInit
    /\ sheet \in Sheets
    /\ cue = NoCue
    /\ disc = NoDisc
    /\ AlbumInit
    /\ DescInit
    /\ LockInit

NextCue ==
    \/ \E ok \in BOOLEAN : ReadTextFileContent(ok)
    \/ ScanLine
    \/ \E scanErr \in BOOLEAN : ScanEnd(scanErr)
    \/ \E discNumber \in 1..MaxDiscs, exists \in BOOLEAN :
          ProcessCueFile(discNumber, exists)

SpecCue == InitCue /\ [][NextCue]_vars

\* processCueFile returned a Disc
Built == disc.pc = "disc"

\* C13: in a Disc built from a cue sheet, the end offset of every track but
\* the last is the start offset of the next track, and the end offset of the
\* last track (the only one, when there is one) is zero, the unset value
C13_EndIsNextStart ==
    Built =>
        /\ Len(disc.Tracks) = Len(cue.Tracks)
        /\ \A i \in 1..Len(disc.Tracks) :
              /\ disc.Tracks[i].StartTime = cue.Tracks[i].StartTime
              /\ disc.Tracks[i].EndTime =
                    IF i < Len(disc.Tracks)
                    THEN disc.Tracks[i + 1].StartTime ELSE 0

\* a disc of three tracks whose second track ends where the third starts,
\* later than zero
C13_Witness ==
    /\ Built
    /\ Len(disc.Tracks) = 3
    /\ disc.Tracks[2].EndTime = 432666
    /\ disc.Tracks[3].StartTime = 432666
    /\ disc.Tracks[3].EndTime = 0

\* the lines of the cue sheet that start with directive k
LinesOf(k) == SelectSeq(sheet, LAMBDA l : l.k = k)

\* the cue sheet names album.wav and has the tracks 1, 2 and 3, whose
\* INDEX 01 lines read 00:00:00, 03:30:00 and 07:12:50
Scenario ==
    /\ LinesOf("FILE") = <<FileLine>>
    /\ [i \in 1..Len(LinesOf("TRACK")) |-> LinesOf("TRACK")[i].n] = <<1, 2, 3>>
    /\ [i \in 1..Len(LinesOf("INDEX")) |-> LinesOf("INDEX")[i].text] =
          <<Stamp(<<"0", "0">>, <<"0", "0">>, <<"0", "0">>),
            Stamp(<<"0", "3">>, <<"3", "0">>, <<"0", "0">>),
            Stamp(<<"0", "7">>, <<"1", "2">>, <<"5", "0">>)>>

\* the start and end offsets of the tracks of the disc, in milliseconds
Offsets == [i \in 1..Len(disc.Tracks) |->
               <<disc.Tracks[i].StartTime, disc.Tracks[i].EndTime>>]

\* C14, as claimed: the cue sheet of the scenario yields three tracks that
\* start at 0 ms, 210000 ms and 432667 ms; the first ends at 210000 ms, the
\* second at 432667 ms, and the end of the third is unset
C14_ScenarioOffsets ==
    Built /\ Scenario =>
        Offsets = <<<<0, 210000>>, <<210000, 432667>>, <<432667, 0>>>>

\* C14, amended: the cue sheet of the scenario yields three tracks that start
\* at 0 ms, 210000 ms and 432666 ms (the 50 frames are floor(50 * 1000 / 75)
\* = 666 ms); the first ends at 210000 ms, the second at 432666 ms, and the
\* end of the third is unset
C14_ScenarioOffsetsFloor ==
    Built /\ Scenario =>
        Offsets = <<<<0, 210000>>, <<210000, 432666>>, <<432666, 0>>>>

\* a Disc was built from the cue sheet of the scenario
C14_Witness == Built /\ Scenario /\ Len(disc.Tracks) = 3

\* parseCueFile has returned
Returned == cue.pc \in {"parsed", "failed"}

\* C15: parsing a cue sheet without a TRACK marker fails, and every Disc that
\* is built has at least one track
C15_NoTracksIsAnError ==
    /\ Returned /\ LinesOf("TRACK") = <<>> => cue.pc = "failed"
    /\ Built => disc.Tracks # <<>>

\* a cue sheet with a FILE line and no TRACK marker was read to its end, and
\* processCueFile returned the error
C15_Witness ==
    /\ LinesOf("TRACK") = <<>>
    /\ LinesOf("FILE") # <<>>
    /\ cue.line = Len(sheet)
    /\ cue.pc = "failed"
    /\ disc.pc = "error"

\* C16: parsing a cue sheet without a FILE directive fails, and no Disc is
\* built from a cue sheet that names no raw-audio file
C16_NoFileIsAnError ==
    /\ Returned /\ LinesOf("FILE") = <<>> => cue.pc = "failed"
    /\ Built => cue.WavFile # <<>> /\ disc.WavPath # <<>>

\* the text after INDEX 01 is not two digits, three times, between colons
Unparsable(l) ==
    /\ l.k = "INDEX"
    /\ ~(Len(l.text) = 3 /\ \A f \in 1..3 : TwoDigits(l.text[f]))

\* some INDEX 01 line of an open track has a timestamp that cannot be parsed
BadTimestamp ==
    \E i \in 1..Len(sheet) :
        /\ Unparsable(sheet[i])
        /\ \E j \in 1..(i - 1) : sheet[j].k = "TRACK"

\* C17: parsing a cue sheet in which an INDEX 01 line of an open track has a
\* timestamp that cannot be parsed as MM:SS:FF fails with an error
C17_BadTimestampIsAnError ==
    Returned /\ BadTimestamp => cue.pc = "failed"

\* the title has a parenthesized guest-performer clause
GuestClause(title) ==
    \E k \in 1..Len(title) :
        /\ title[k] \in {"FULL(", "("}
        /\ k < Len(title)
        /\ title[k + 1] \in {"WITH", "WITH_T", "feat."}

\* C20: on the album of artist Main, the track of cue title Song, FULL(,
\* WITH, Guest, CHORUS, FULL) gets the title Song and the artist "Main,
\* Guest"; a track whose title has no guest-performer clause keeps its title
\* and gets the album's artist
C20_GuestClause ==
    Built =>
        \A i \in 1..Len(disc.Tracks) :
            /\ cue.Tracks[i].Title =
                   <<"Song", "FULL(", "WITH", "Guest", "CHORUS", "FULL)">>
               => /\ disc.Tracks[i].Title = <<"Song">>
                  /\ disc.Tracks[i].Artist = <<"Main", ",", " ", "Guest">>
            /\ ~GuestClause(cue.Tracks[i].Title)
               => /\ disc.Tracks[i].Title = cue.Tracks[i].Title
                  /\ disc.Tracks[i].Artist = TheAlbum.Artist

\* ------------------------------------------ ScanAlbumDirectory on an album
InitAlbum ==
    /\ WatchInit
    /\ SchedInit
    /\ ledger = {}
    /\ cfg = DefaultConfig
    /\ DetInit
    /\ CueInit
    /\ listing \in Walks(MaxEntries)
    /\ walk = NoWalk
    /\ albumObj = [Discs |-> <<>>]
    /\ DescInit
    /\ LockInit

NextAlbum ==
    \/ Visit
    \/ WalkEnd
    \/ SortAndReturn

SpecAlbum == InitAlbum /\ [][NextAlbum]_vars

\* ScanAlbumDirectory has returned
Assembled == walk.pc = "done"

\* a cue file directly in the album directory
CueFile(e) == ~e.err /\ ~e.isDir /\ ~e.nested /\ e.suffix \in {".cue", ".CUE"}

\* a cue file that parses and whose raw-audio file exists
GoodCue(e) ==
    /\ CueFile(e)
    /\ \E k \in 1..Len(e.lines) : e.lines[k].k = "TRACK"
    /\ e.wav

\* the discs of the album returned
Discs == albumObj.Discs

\* C18: when nothing fails but cue files (one that does not parse, one whose
\* raw-audio file does not exist), the assembler returns the Album without
\* error, with a Disc for every cue file of the directory that parses and
\* whose raw-audio file exists
C18_FailureSkipsOneDisc ==
    Assembled /\ (\A i \in 1..Len(listing) : ~listing[i].err) =>
        /\ ~walk.err
        /\ \A i \in 1..Len(listing) :
              GoodCue(listing[i]) => \E k \in 1..Len(Discs) : Discs[k].CuePath = i

\* the first cue file fails, a later one is good, and the album was returned
\* with a disc
C18_Witness ==
    /\ Assembled
    /\ ~walk.err
    /\ \E i, j \in 1..Len(listing) :
          /\ i < j
          /\ CueFile(listing[i])
          /\ ~GoodCue(listing[i])
          /\ GoodCue(listing[j])
    /\ Discs # <<>>

\* C19: the discs of a returned Album carry the numbers 1..k in the order of
\* the list, k being the number of cue files that produced a disc; they are
\* numbered in the order their cue files were met, a failing cue file taking
\* no number
C19_DiscNumbers ==
    Assembled =>
        /\ \A k \in 1..Len(Discs) :
              /\ Discs[k].DiscNumber = k
              /\ k < Len(Discs) => Discs[k].CuePath < Discs[k + 1].CuePath
        /\ Len(Discs) = Cardinality({i \in 1..walk.at : GoodCue(listing[i])})

\* two discs, numbered 1 and 2, from the second and third entry, after a cue
\* file that failed
C19_Witness ==
    /\ Assembled
    /\ Len(Discs) = 2
    /\ CueFile(listing[1])
    /\ Discs[1].CuePath = 2
    /\ Discs[2].DiscNumber = 2

\* ------------------------------------- ScanAlbumDirectory: the descriptor
\* the texts of up to n tokens of alphabet A
RECURSIVE Texts(_, _)
Texts(A, n) ==
    IF n = 0 THEN {<<>>}
    ELSE Texts(A, n - 1) \cup
         {Append(t, a) : t \in {x \in Texts(A, n - 1) : Len(x) = n - 1}, a \in A}

Contents ==
    Texts({"Artist", " ", "<<", "NL", "NAME:", "DATE:", "1999", "NIAN"}, MaxContent)

\* base names are not empty; "Artist - Title (1999) WAV+CUE" is one of them
DirNames ==
    (Texts({"Artist", " ", "-", "(", "1999", ")", "WAV+CUE"}, MaxName) \ {<<>>})
    \cup {<<"Artist", " ", "-", " ", "Title", " ", "(", "1999", ")", " ", "WAV+CUE">>}

InitDesc ==
    /\ WatchInit
    /\ SchedInit
    /\ ledger = {}
    /\ cfg = DefaultConfig
    /\ DetInit
    /\ CueInit
    /\ AlbumInit
    /\ source \in
          {[readable |-> TRUE, content |-> c, dirName |-> <<"Title">>] :
              c \in Contents}
          \cup {[readable |-> FALSE, content |-> <<>>, dirName |-> n] :
                   n \in DirNames}
    /\ meta = NoMeta
    /\ LockInit

NextDesc ==
    \/ Describe
    \/ Normalize

SpecDesc == InitDesc /\ [][NextDesc]_vars

\* C21: the Album the assembler returns has a non-empty artist, whatever the
\* descriptor text and the base name of the directory: the extracted one, or
\* else the sentinel "Unknown Artist"
C21_ArtistNeverEmpty ==
    meta.pc = "done" => meta.Artist # <<>>

\* --------------------------------------------- the pending map and scans
\* the timers whose delay has expired and whose callback has not yet returned
\* from performScan
Expired == {t \in TimerIds : timers[t].pc \in InScan \cup {"lock"}}

\* C22: when the delay armed for d expires, d's entry is removed from the
\* pending map at once, before the scan: while the callback waits for the
\* scan lock or scans, the map holds no entry of its timer
C22_EntryRemovedOnExpiry ==
    \A t \in Expired : pendingScans[timers[t].dir] # t

\* C23: when the callback of a scan that ended with the verdict unstable
\* returns, the directory is pending: the map holds the entry of the delay
\* the scan armed, if that delay is still armed
C23_RescheduledIsPending ==
    [][\A t \in TimerIds :
          /\ timers[t].pc = "delete"
          /\ timers'[t].pc = "free"
          /\ scan.id = t
          /\ scan.log = <<"unstable", "trigger">>
          /\ pendingScans[timers[t].dir] # 0
          /\ timers[pendingScans[timers[t].dir]].pc = "armed"
          => pendingScans'[timers[t].dir] = pendingScans[timers[t].dir]]_vars

\* the scans of directory d in progress
ScansOf(d) == {t \in Scanning : timers[t].dir = d}

\* C24: a TriggerScan(d) that arrives during a scan of d leaves the scan as
\* it is and arms a fresh delay for d; a callback enters the critical section
\* only when no other is inside
C24_TriggerDuringScan ==
    [][/\ \A d \in Dirs :
             TriggerScan(d) /\ ScansOf(d) # {} =>
                /\ \A t \in ScansOf(d) : timers'[t] = timers[t]
                /\ scan' = scan /\ scanMutex' = scanMutex /\ effects' = effects
                /\ pendingScans'[d] \notin ScansOf(d)
                /\ timers[pendingScans'[d]].pc = "free"
                /\ timers'[pendingScans'[d]] = [dir |-> d, pc |-> "armed"]
       /\ \A t \in TimerIds :
             timers[t].pc = "lock" /\ timers'[t].pc \in InScan => Scanning = {}]_vars

\* a scan of a directory is past its stability check while a delay armed
\* during the scan, for the same directory, waits
C24_Witness ==
    \E t, u \in TimerIds :
        /\ timers[t].pc \in {"ledger", "scan", "fetch", "process", "mark"}
        /\ timers[u] = [dir |-> timers[t].dir, pc |-> "armed"]
        /\ pendingScans[timers[t].dir] = u

\* --------------------------- the scheduler, statement by statement of the
\* code that takes the lock of the pending map
InitLock ==
    /\ FrontInit
    /\ SchedInit
    /\ ledger = {}
    /\ cfg = DefaultConfig
    /\ DetInit

NextLock ==
    \/ \E d \in Dirs : CallTrigger(d)
    \/ CallLock
    \/ CallStopArm
    \/ CallStore
    \/ CallUnlock
    \/ \E t \in TimerIds : TimerFire(t)
    \/ \E t \in TimerIds : LockScan(t)
    \/ \E t \in TimerIds : StabilityVerdict(t)
    \/ \E t \in TimerIds : ReLock(t)
    \/ \E t \in TimerIds : ReStopArm(t)
    \/ \E t \in TimerIds : ReStore(t)
    \/ \E t \in TimerIds : ReUnlock(t)
    \/ \E t \in TimerIds : ReReturn(t)
    \/ \E t \in TimerIds : LedgerCheck(t)
    \/ \E t \in TimerIds : Assemble(t)
    \/ \E t \in TimerIds : Fetch(t)
    \/ \E t \in TimerIds : Process(t)
    \/ \E t \in TimerIds : Mark(t)
    \/ \E t \in TimerIds : DelLock(t)
    \/ \E t \in TimerIds : DelDelete(t)
    \/ \E t \in TimerIds : DelUnlock(t)

SpecLock == InitLock /\ [][NextLock]_vars

\* the goroutines whose next statement reads or writes the pending map
AtMap ==
    {t \in TimerIds : timers[t].pc \in {"r_stop", "r_store", "d_delete"}}
    \cup (IF caller.pc \in {"stop", "store"} THEN {Watcher} ELSE {})

\* the callbacks that wait for the scan lock or are in the stability wait,
\* the ledger check, the album build or the downstream handoff
AtScanWork ==
    {t \in TimerIds :
        timers[t].pc \in {"lock", "stab", "wait", "ledger", "scan", "fetch",
                          "process", "mark"}}

\* the pending map is read and written only by the goroutine that holds its
\* lock, and no callback holds the lock while it waits for the scan lock or
\* runs the stability wait, the ledger check, the album build or the handoff
C25_MapUnderLock ==
    /\ \A g \in AtMap : pendingScansMutex = g
    /\ pendingScansMutex \notin AtScanWork

\* the pending map changes only in a step of the holder of the lock
C25_WritesUnderLock ==
    [][pendingScans' # pendingScans =>
          pendingScansMutex # 0 /\ pendingScansMutex' = pendingScansMutex]_vars

\* C25: every read and write of the pending map happens with its lock held,
\* and the lock is never held during the stability wait, the ledger check,
\* the album build or the handoff, so that a TriggerScan call waits for no scan
C25_PendingLock == []C25_MapUnderLock /\ C25_WritesUnderLock

\* the caller of TriggerScan holds the lock and is about to write the map
\* while a scan is in its stability check
C25_Witness ==
    /\ pendingScansMutex = Watcher
    /\ caller.pc = "store"
    /\ \E t \in TimerIds : timers[t].pc = "stab" /\ timers[t].dir = caller.dir

\* ------------------------------------------------- claims on the detector
\* the relevant files the latest poll of the run has read
Present == {f \in Files : det.prev[f] # 0}

\* C26: a run that has read relevant files at its latest poll returns stable
\* no earlier than one quiet duration after the poll in which it first read
\* each of them, modified or not since the run began, and never at its first
\* poll.
C26_QuietWindowFromFirstSight ==
    ReturnsStable =>
        /\ \A f \in Present : det.seen[f] # Never /\ det.seen[f] >= cfg.quiet
        /\ Present # {} => det.polls >= 2

\* C26 happens: a run returned stable over a file that nobody has written
\* since before the run began, one full quiet duration after it first read it
C26_Witness ==
    /\ ReturnsStable
    /\ cfg.quiet = MaxQuiet
    /\ \E f \in Present : changed[f] = Never /\ det.seen[f] = cfg.quiet

\* the detector makes a poll: the loop test holds and the directory is read
Polls == det.pc = "poll" /\ WithinMaxWait /\ det' # det

\* file f is there, with the pair the previous poll read and a quiet-since
\* instant at least one quiet duration old
QuietEnough(f) ==
    det.prev[f] = files[f] /\ det.quiet[f] # Never /\ det.quiet[f] >= cfg.quiet

\* C27: a poll that finds relevant files returns stable exactly when the
\* directory could be read and every relevant file now present is unchanged
\* since the previous poll and quiet for at least the quiet duration; the
\* files that have vanished do not count, and a file that is unchanged keeps
\* its quiet-since instant whatever happened to the other files.
C27_VerdictFromPresentFiles ==
    [][Polls /\ files # NoFiles =>
          /\ (det'.pc = "done" /\ det'.result) <=>
                /\ det'.listed = "ok"
                /\ \A f \in Files : files[f] # 0 => QuietEnough(f)
          /\ \A f \in Files :
                det'.prev[f] # 0 /\ det.prev[f] = files[f]
                    => det'.quiet[f] = det.quiet[f]]_vars

\* C27 happens: a run returned stable over the files that are there while a
\* file it had read less than a quiet duration ago is gone
C27_Witness ==
    /\ ReturnsStable
    /\ Present # {}
    /\ \E f \in Files :
          det.prev[f] = 0 /\ det.quiet[f] # Never /\ det.quiet[f] < cfg.quiet

\* ------------------------------------- waitForFilesStability of main.go
\* one pass of the for loop of main.go's waitForFilesStability: as Poll,
\* except that an error of os.ReadDir ends the run with the verdict unstable
PollMain ==
    /\ det.pc = "poll"
    /\ IF ~WithinMaxWait
       THEN det' = Verdict(det, FALSE)
       ELSE \E l \in Listable :
               LET cur == CurrentFileStates(l)
                   quiet == FileQuietTimes(cur)
                   polled == [det EXCEPT !.polls = IF @ < 2 THEN @ + 1 ELSE @,
                                         !.listed = l.kind]
                   read == [polled EXCEPT !.prev = cur, !.quiet = quiet,
                                          !.seen = FirstSeen(cur)]
               IN IF l.kind = "listErr"
                  THEN det' = Verdict(polled, FALSE)
                  ELSE IF ~HasRelevantFiles(l, cur)
                  THEN det' = Verdict(read, TRUE)
                  ELSE IF AllRelevantFilesQuiet(l, cur) /\ AllCurrentlyQuiet(cur, quiet)
                  THEN det' = Verdict(read, TRUE)
                  ELSE det' = Sleep(read)
    /\ UNCHANGED <<cfg, files, changed, undone, settled, schedVars, frontVars>>

NextMain ==
    \/ WaitStart
    \/ PollMain
    \/ Wake
    \/ WaitEnd
    \/ Tick
    \/ \E f \in Files : FileCreate(f)
    \/ \E f \in Files : FileWrite(f)
    \/ \E f \in Files : FileRemove(f)

\* the detector of main.go alone, in any configuration and in any directory
SpecMain == InitStab /\ [][NextMain]_vars

\* C28: a poll at which the directory cannot be listed ends in a sleep of one
\* poll interval with the run's records as they were, not in a verdict; and
\* the detector returns unstable only when the maximum wait has elapsed.
C28_ListErrorRetries ==
    /\ [][Polls /\ det'.listed = "listErr" =>
             /\ det'.pc = "sleep" /\ det'.sleep = cfg.interval
             /\ det'.prev = det.prev /\ det'.quiet = det.quiet]_vars
    /\ [](det.pc = "done" /\ ~det.result => det.elapsed >= cfg.maxWait)

\* ------------------------------------------- the detector, with fairness
\* the configurations with the longest maximum wait
LongWaits == {c \in Configs : c.maxWait = MaxWait}

InitTerm ==
    /\ FrontInit
    /\ SchedInit
    /\ ledger = {}
    /\ cfg \in LongWaits
    /\ DetInit

\* the goroutine of the detector runs when it can, and the clock advances;
\* nothing is asked of the processes that change the files
FairTerm ==
    /\ WF_vars(Poll)
    /\ WF_vars(Wake)
    /\ WF_vars(Tick)

\* the detector while other processes create, write and remove the files
\* for as long as they like
SpecTerm == InitTerm /\ [][NextStab]_vars /\ FairTerm

\* C29: a run of the detector ends with a verdict, whatever the files keep
\* doing; and at the loop test with the maximum wait elapsed it returns
\* unstable without reading the directory again.
C29_Terminates ==
    /\ det.pc \in {"poll", "sleep"} ~> det.pc = "done"
    /\ [][det.pc = "poll" /\ det.elapsed >= cfg.maxWait /\ det' # det =>
             det' = Verdict(det, FALSE)]_vars

\* C29 happens: a run has returned unstable after the maximum wait, with a
\* file that was written again just before
C29_Witness ==
    /\ det.pc = "done" /\ ~det.result
    /\ det.elapsed = MaxWait
    /\ det.polls = 2
    /\ \E f \in Files : files[f] # 0 /\ changed[f] = 0

\* ------------------------------------------------------------------------
\* C30: in every Disc built from a cue sheet the parser accepts, the start
\* offsets of the tracks never decrease from one track to the next, so that
\* every track but the last ends no earlier than it starts.
C30_StartsNeverDecrease ==
    Built =>
        \A i \in 1..(Len(disc.Tracks) - 1) :
            /\ disc.Tracks[i].StartTime <= disc.Tracks[i + 1].StartTime
            /\ disc.Tracks[i].EndTime >= disc.Tracks[i].StartTime

\* ------------------------------------------------ the INDEX 01 timestamps
\* a field of a timestamp written with two digits
TwoDigit(n) == <<Digits[(n \div 10) + 1], Digits[(n % 10) + 1]>>

\* the minutes, seconds and frames of the timestamps: every count of frames
\* that two digits can write, with the smallest, some middle and the largest
\* minutes and seconds
Minutes == {0, 7, 99}

Seconds == {0, 12, 59, 99}

Frames == 0..99

\* a cue sheet of one track that starts at m:sec:f
TimedSheet(m, sec, f) ==
    <<FileLine, Line("TRACK", 1, <<>>),
      Line("INDEX", 0, Stamp(TwoDigit(m), TwoDigit(sec), TwoDigit(f)))>>

\* processCueFile is called for a cue file of one track
InitTime ==
    /\ WatchInit
    /\ SchedInit
    /\ ledger = {}
    /\ cfg = DefaultConfig
    /\ DetInit
    /\ sheet \in {TimedSheet(m, sec, f) : m \in Minutes, sec \in Seconds, f \in Frames}
    /\ cue = NoCue
    /\ disc = NoDisc
    /\ AlbumInit
    /\ DescInit
    /\ LockInit

\* parseCueFile and processCueFile on one cue file of one track, for the
\* timestamps above
SpecTime == InitTime /\ [][NextCue]_vars

\* C31: the start offset of a track whose INDEX 01 line reads MM:SS:FF, two
\* digits each, is minutes*60000 + seconds*1000 + floor(frames*1000/75)
\* milliseconds.
C31_StartOffset ==
    Built =>
        \A m \in Minutes, sec \in Seconds, f \in Frames :
            sheet = TimedSheet(m, sec, f) =>
                disc.Tracks[1].StartTime = m * 60000 + sec * 1000 + (f * 1000) \div 75

\* C31 happens: 99:59:74 gives 5,999,986 ms, the 74 frames being 986 ms
C31_Witness ==
    /\ Built
    /\ sheet = TimedSheet(99, 59, 74)
    /\ disc.Tracks[1].StartTime = 5999986

\* ------------------------------------------------- cue lines in any order
\* the lines of a cue file
MaxLines == 4

\* the lines a cue file is made of: the FILE line, two track markers, two
\* titles, two timestamps, and an INDEX 01 line whose timestamp indexRegex
\* does not match
CueLines ==
    {FileLine, Line("TRACK", 1, <<>>), Line("TRACK", 2, <<>>),
     Line("TITLE", 0, <<<<"Song">>>>), Line("TITLE", 0, <<<<"Other">>>>),
     Line("INDEX", 0, Stamp(<<"0", "0">>, <<"0", "1">>, <<"0", "0">>)),
     Line("INDEX", 0, Stamp(<<"0", "3">>, <<"3", "0">>, <<"0", "0">>)),
     Line("INDEX", 0, Stamp(<<"0", "3">>, <<"x", "x">>, <<"0", "0">>))}

\* parseCueFile is called for a cue file of any lines in any order
InitLines ==
    /\ WatchInit
    /\ SchedInit
    /\ ledger = {}
    /\ cfg = DefaultConfig
    /\ DetInit
    /\ sheet \in UNION {[1..n -> CueLines] : n \in 0..MaxLines}
    /\ cue = NoCue
    /\ disc = NoDisc
    /\ AlbumInit
    /\ DescInit
    /\ LockInit

SpecLines == InitLines /\ [][NextCue]_vars

\* the positions of the track markers of the cue sheet
Markers == {i \in 1..Len(sheet) : sheet[i].k = "TRACK"}

\* the position of the j-th track marker
Marker(j) ==
    CHOOSE i \in Markers : Cardinality({h \in Markers : h <= i}) = j

\* the lines after marker i and before the next marker
Segment(i) ==
    {h \in (i + 1)..Len(sheet) : \A g \in Markers : g > i => h < g}

\* the last of the positions P, 0 if there is none
Last(P) == IF P = {} THEN 0 ELSE CHOOSE h \in P : \A g \in P : g <= h

\* the last TITLE line of the segment of marker i
LastTitle(i) == Last({h \in Segment(i) : QuotedRegex(sheet[h], "TITLE")})

\* the last INDEX 01 line with a timestamp of the segment of marker i
LastIndex(i) == Last({h \in Segment(i) : IndexRegex(sheet[h]) # <<>>})

\* the track of marker i: its number, and the last title and the last start
\* of its segment
TrackOf(i) ==
    [Number |-> sheet[i].n,
     Title |-> IF LastTitle(i) = 0 THEN <<>> ELSE sheet[LastTitle(i)].text[1],
     StartTime |-> IF LastIndex(i) = 0 THEN 0
                   ELSE ParseCueTime(IndexRegex(sheet[LastIndex(i)])).d]

VisitMain ==
    /\ walk.pc = "walk"
    /\ walk.at < Len(listing)
    /\ LET e == listing[walk.at + 1]
           next == [walk EXCEPT !.at = walk.at + 1]
           d == DiscOf(ParseCueFile(e.lines), walk.at + 1, walk.discNumber, e.wav)
       IN IF e.err
          THEN /\ walk' = [next EXCEPT !.err = TRUE, !.pc = "sort"]
               /\ UNCHANGED albumObj
          ELSE IF ~e.isDir /\ IsCueName(e) /\ d.pc = "disc"
          THEN /\ albumObj' = [albumObj EXCEPT !.Discs = Append(@, d)]
               /\ walk' = [next EXCEPT !.discNumber = walk.discNumber + 1]
          ELSE /\ walk' = next
               /\ UNCHANGED albumObj
    /\ UNCHANGED <<listing, cueVars, descVars,
                 watchVars, schedVars, detVars, lockVars>>

\* ScanAlbumDirectory of scanner.go returns album and the error, unsorted
ReturnMain ==
    /\ walk.pc = "sort"
    /\ walk' = [walk EXCEPT !.pc = "done"]
    /\ UNCHANGED <<listing, albumObj, cueVars, descVars,
                 watchVars, schedVars, detVars, lockVars>>

NextAlbumMain ==
    \/ VisitMain
    \/ WalkEnd
    \/ ReturnMain

\* the walk of scanner.go's ScanAlbumDirectory over an album directory
SpecAlbumMain == InitAlbum /\ [][NextAlbumMain]_vars

\* the cue files directly in the album directory that come before entry i
\* and give a disc
GoodBefore(i) == {h \in 1..(i - 1) : GoodCue(listing[h])}

\* C33: every disc of the album returned comes from a cue file directly in
\* the album directory, and its number counts only such cue files: a cue file
\* in a subdirectory gives no disc and takes no number.
C33_OnlyRootCueFiles ==
    Assembled =>
        \A k \in 1..Len(Discs) :
            /\ CueFile(listing[Discs[k].CuePath])
            /\ Discs[k].DiscNumber = 1 + Cardinality(GoodBefore(Discs[k].CuePath))

\* ------------------------------------------------------- the two locks
\* a step of the callback of timer t that waits for no lock
LockFreeStep(t) ==
    \/ StabilityVerdict(t)
    \/ ReStopArm(t)
    \/ ReStore(t)
    \/ ReUnlock(t)
    \/ ReReturn(t)
    \/ LedgerCheck(t)
    \/ Assemble(t)
    \/ Fetch(t)
    \/ Process(t)
    \/ Mark(t)
    \/ DelDelete(t)
    \/ DelUnlock(t)

\* goroutine g can take a step without waiting for a lock
Runnable(g) ==
    IF g = Watcher
    THEN ENABLED (CallStopArm \/ CallStore \/ CallUnlock)
    ELSE ENABLED LockFreeStep(g)

\* the goroutines that have asked for a lock and do not have it yet
WaitsForScanMutex(t) == timers[t].pc = "lock"

WaitsForPendingMutex(t) == timers[t].pc \in {"resched", "delete"}

C35_OneArmedTimerInMap ==
    \A d \in Dirs :
        /\ Cardinality(ArmedFor(d)) <= 1
        /\ \A t \in ArmedFor(d) : pendingScans[d] = t

\* ------------------------------------------------------------------------
\* the scan of timer t has just learnt from the ledger, without an error,
\* that its directory is not processed, and goes on to the assembler
LookedUp(t) ==
    /\ timers[t].pc = "ledger" /\ timers'[t].pc = "scan"
    /\ scan'.log[Len(scan'.log)] # "ledger_err"

\* ProcessAlbum has just returned nil to the scan of timer t
Processed(t) == timers[t].pc = "process" /\ timers'[t].pc = "mark"

\* C36: a marked directory stays marked; the ledger changes only when the
\* scan that holds the scan lock marks its own directory after ProcessAlbum
\* returned nil; a scan whose lookup succeeds goes on to the assembler only
\* for an unmarked directory; and ProcessAlbum returns nil, in a scan whose
\* lookup succeeded, only for a directory that is not marked. So with ledger
\* operations that succeed the processor succeeds once for a directory.
C36_NoReprocessing ==
    [][/\ ledger \subseteq ledger'
       /\ ledger' # ledger =>
             \E t \in TimerIds :
                /\ timers[t].pc = "mark" /\ scanMutex = t /\ Scanning = {t}
                /\ scan.log[Len(scan.log)] = "process_ok"
                /\ ledger' = ledger \cup {timers[t].dir}
       /\ \A t \in TimerIds : LookedUp(t) => timers[t].dir \notin ledger
       /\ \A t \in TimerIds :
             Processed(t) /\ scan.log[2] = "ledger_no" =>
                /\ timers[t].dir \notin ledger
                /\ Scanning = {t}]_vars

\* C36 happens: a scan has processed and marked its directory while the
\* next delay for the same directory is armed, and another directory was
\* marked before
C36_Witness ==
    /\ ScanEnded
    /\ scan.log = <<"stable", "ledger_no", "discs1", "fetch", "process_ok", "mark">>
    /\ scan.dir \in ledger
    /\ ledger # {scan.dir}
    /\ ArmedFor(scan.dir) # {}

\* --------------------------------------------- the scheduler, with fairness
\* a step of the callback of timer t once it has the scan lock, the verdict
\* of the detector being an input
ScanWork(t) ==
    \/ StabilityVerdict(t)
    \/ Reschedule(t)
    \/ LedgerCheck(t)
    \/ Assemble(t)
    \/ Fetch(t)
    \/ Process(t)
    \/ Mark(t)
    \/ DeletePending(t)

\* a callback that can run does, and sync.Mutex hands the scan lock to every
\* waiter in turn; nothing is asked of the verdicts, of the timers nor of the
\* callers of TriggerScan
FairScan ==
    /\ \A t \in TimerIds : WF_vars(ScanWork(t))
    /\ \A t \in TimerIds : SF_vars(LockScan(t))

SpecFair == Init /\ [][Next]_vars /\ FairScan

\* C37: a callback whose delay has expired gets the scan lock and runs its
\* scan, whatever the verdicts of the scans of the other directories; the
\* scan lock is held by a callback inside performScan only.
C37_NoStarvation ==
    /\ \A t \in TimerIds : timers[t].pc = "lock" ~> scanMutex = t
    /\ [](scanMutex # 0 => timers[scanMutex].pc \in InScan)

\* C37 happens: the callback of one directory waits for the scan lock while
\* a scan of another directory, just found unstable, is about to reschedule
\* itself
C37_Witness ==
    \E t, u \in TimerIds :
        /\ timers[t].pc = "resched" /\ scanMutex = t
        /\ timers[u].pc = "lock" /\ timers[u].dir # timers[t].dir
        /\ pendingScansMutex = 0

\* C38: a scan in which the transcoding of some track failed does not mark
\* its directory in the ledger.
C38_FailedTrackNotMarked ==
    [][\A t \in TimerIds :
          (timers[t].pc = "mark" /\ scan.id = t /\ scan.failed)
             => ledger' = ledger]_vars

\* C39: in every Disc built from a cue sheet the parser accepts, every track
\* but the last has an end offset greater than zero, the value for which
\* buildFFmpegCommand leaves out -to and cuts to the end of the file.
C39_ZeroEndOnlyOnLast ==
    Built =>
        \A i \in 1..(Len(disc.Tracks) - 1) : disc.Tracks[i].EndTime > 0

====
